---- MODULE Spec2Model ----
(***************************************************************************)
(* A model of lazypacket (BedrockRelay): the schema-driven packet decoder  *)
(* (protocol.rs), the capture logger and session (packet_logger.rs,        *)
(* session.rs), the UDP proxy loop (proxy.rs) and the log readers          *)
(* (packet_dump.rs, viewer.rs).                                            *)
(*                                                                         *)
(* Text is a sequence of code points, bytes are 0..255, and an integer     *)
(* read from the wire is a sequence of bits, least significant first, so   *)
(* that 32-bit and 64-bit values keep their width.                         *)
(***************************************************************************)
EXTENDS Integers, Sequences, FiniteSets, TLC

VARIABLES
  parser,        \* ProtocolParser after load_from_file, or LoadError
  eof_seeks,     \* whether a failed Cursor::read_exact leaves the cursor at the end
  data,          \* the bytes handed to decode_packet
  direction,     \* the direction handed to decode_packet
  decoded,       \* the DecodedPacket returned (NoResult before the call)
  call_stack,    \* the type names parse_type_string was called with, outermost first
  resolved,      \* what the outermost parse_type_string returned (NoResult before)
  now,           \* the system clock, in milliseconds after Epoch
  file,          \* the bytes of one session's log file on disk
  writer,        \* the bytes held by the logger's BufWriter
  lock,          \* the task that holds the session's logger mutex, or "free"
  tasks,         \* the callers of Session::log_clientbound / log_serverbound
  logged,        \* the entries log_packet has built and what each call returned
  acquired,      \* the calls that got the logger's mutex, in the order they got it
  loaded,        \* what SessionLog::load returned for the file as it is
  sessions,      \* the proxy's table: client address -> session
  sent,          \* the datagrams the proxy's socket has sent, in order
  reported,      \* the errors and warnings the proxy has reported
  received,      \* the datagrams recv_from has returned, with their source address
  new_sessions,  \* the "New session created" lines of the proxy's log
  hasher,        \* the order in which the session table's iterator gives its keys
  pc,            \* the line of proxy.rs the task of ProxyServer::run is at
  guards,        \* the guards of the session table's RwLock that are alive
  send_calls,    \* the calls of socket.send_to: session, direction and datagram
  baseline,      \* the packet_json of the viewer's baseline packet
  current,       \* the packet_json of the viewer's current packet
  diff,          \* the JsonDiff compare_json returned
  diff_lines,    \* the (text, color) pairs format_json_diff returned
  filter_input,  \* the text typed into the viewer's filter box
  filter,        \* the Option<PacketFilterSet> parse_filter returned
  filter_text,   \* PacketFilterSet::to_string of that set
  db_packets,     \* the rows of the packets table
  query,         \* the arguments of Database::get_packets
  rows,          \* the rows get_packets returned
  app            \* the inspector's ViewerApp (NoResult before ViewerApp::new)

decodeVars == <<parser, eof_seeks, data, direction, decoded, call_stack, resolved>>
loggerVars == <<now, file, writer, lock, tasks, logged, acquired, loaded>>
runVars == <<pc, guards, send_calls>>
proxyVars == <<sessions, sent, reported, received, new_sessions, hasher, runVars>>
viewerVars == <<baseline, current, diff, diff_lines, filter_input, filter, filter_text,
                db_packets, query, rows, app>>

vars == <<parser, eof_seeks, data, direction, decoded, call_stack, resolved,
          now, file, writer, lock, tasks, logged, acquired, loaded,
          sessions, sent, reported, received, new_sessions, hasher,
          pc, guards, send_calls,
          baseline, current, diff, diff_lines, filter_input, filter, filter_text,
          db_packets, query, rows, app>>

----------------------------------------------------------------------------
(* Option<T> *)
None == [some |-> FALSE]
Some(x) == [some |-> TRUE, v |-> x]

Min(a, b) == IF a < b THEN a ELSE b

RECURSIVE Pow2(_)
Pow2(n) == IF n = 0 THEN 1 ELSE 2 * Pow2(n - 1)

(* Maps (HashMap, serde_json::Map) are functions; Put is insert. *)
EmptyMap == <<>>
Put(m, k, x) == [q \in (DOMAIN m) \cup {k} |-> IF q = k THEN x ELSE m[q]]
Has(m, k) == k \in DOMAIN m

RECURSIVE Concat(_)
Concat(ss) == IF ss = <<>> THEN <<>> ELSE Head(ss) \o Concat(Tail(ss))

IsPrefix(p, s) == Len(p) <= Len(s) /\ SubSeq(s, 1, Len(p)) = p

(* str::find: the 1-based index of the first occurrence of pat in s, 0 if none *)
Find(s, pat) ==
  LET hits == {i \in 1..(Len(s) - Len(pat) + 1) : SubSeq(s, i, i + Len(pat) - 1) = pat}
  IN IF hits = {} THEN 0 ELSE CHOOSE i \in hits : \A j \in hits : i <= j

(* String's Ord: lexicographic on the bytes *)
RECURSIVE LexLess(_, _)
LexLess(a, b) ==
  IF b = <<>> THEN FALSE
  ELSE IF a = <<>> THEN TRUE
  ELSE IF Head(a) # Head(b) THEN Head(a) < Head(b)
  ELSE LexLess(Tail(a), Tail(b))

(* the keys of a map in ascending order *)
RECURSIVE SortedKeys(_)
SortedKeys(ks) ==
  IF ks = {} THEN <<>>
  ELSE LET least == CHOOSE k \in ks : \A o \in ks \ {k} : LexLess(k, o)
       IN <<least>> \o SortedKeys(ks \ {least})

(* The string literals of the source, as code points. *)
Str ==
  [ i8 |-> <<105, 56>>,   \* "i8"
    u8 |-> <<117, 56>>,   \* "u8"
    i16 |-> <<105, 49, 54>>,   \* "i16"
    u16 |-> <<117, 49, 54>>,   \* "u16"
    i32 |-> <<105, 51, 50>>,   \* "i32"
    u32 |-> <<117, 51, 50>>,   \* "u32"
    i64 |-> <<105, 54, 52>>,   \* "i64"
    u64 |-> <<117, 54, 52>>,   \* "u64"
    f32 |-> <<102, 51, 50>>,   \* "f32"
    f64 |-> <<102, 54, 52>>,   \* "f64"
    bool |-> <<98, 111, 111, 108>>,   \* "bool"
    varint |-> <<118, 97, 114, 105, 110, 116>>,   \* "varint"
    varint32 |-> <<118, 97, 114, 105, 110, 116, 51, 50>>,   \* "varint32"
    varint64 |-> <<118, 97, 114, 105, 110, 116, 54, 52>>,   \* "varint64"
    zigzag32 |-> <<122, 105, 103, 122, 97, 103, 51, 50>>,   \* "zigzag32"
    zigzag64 |-> <<122, 105, 103, 122, 97, 103, 54, 52>>,   \* "zigzag64"
    li16 |-> <<108, 105, 49, 54>>,   \* "li16"
    li32 |-> <<108, 105, 51, 50>>,   \* "li32"
    li64 |-> <<108, 105, 54, 52>>,   \* "li64"
    lu16 |-> <<108, 117, 49, 54>>,   \* "lu16"
    lu32 |-> <<108, 117, 51, 50>>,   \* "lu32"
    lu64 |-> <<108, 117, 54, 52>>,   \* "lu64"
    string |-> <<115, 116, 114, 105, 110, 103>>,   \* "string"
    LittleString |-> <<76, 105, 116, 116, 108, 101, 83, 116, 114, 105, 110, 103>>,   \* "LittleString"
    ShortString |-> <<83, 104, 111, 114, 116, 83, 116, 114, 105, 110, 103>>,   \* "ShortString"
    LatinString |-> <<76, 97, 116, 105, 110, 83, 116, 114, 105, 110, 103>>,   \* "LatinString"
    uuid |-> <<117, 117, 105, 100>>,   \* "uuid"
    vec2f |-> <<118, 101, 99, 50, 102>>,   \* "vec2f"
    vec3f |-> <<118, 101, 99, 51, 102>>,   \* "vec3f"
    restBuffer |-> <<114, 101, 115, 116, 66, 117, 102, 102, 101, 114>>,   \* "restBuffer"
    native |-> <<110, 97, 116, 105, 118, 101, 58>>,   \* "native:"
    brackets |-> <<91, 93>>,   \* "[]"
    buffer |-> <<98, 117, 102, 102, 101, 114>>,   \* "buffer"
    Buffer |-> <<66, 117, 102, 102, 101, 114>>,   \* "Buffer"
    pstring |-> <<112, 115, 116, 114, 105, 110, 103>>,   \* "pstring"
    encapsulated |-> <<101, 110, 99, 97, 112, 115, 117, 108, 97, 116, 101, 100>>,   \* "encapsulated"
    countType |-> <<99, 111, 117, 110, 116, 84, 121, 112, 101>>,   \* "countType"
    packet |-> <<112, 97, 99, 107, 101, 116, 95>>,   \* "packet_"
    id |-> <<33, 105, 100>>,   \* "!id"
    bound |-> <<33, 98, 111, 117, 110, 100>>,   \* "!bound"
    client |-> <<99, 108, 105, 101, 110, 116>>,   \* "client"
    server |-> <<115, 101, 114, 118, 101, 114>>,   \* "server"
    both |-> <<98, 111, 116, 104>>,   \* "both"
    hex |-> <<48, 120>>,   \* "0x"
    bang |-> <<33>>,   \* "!"
    skip |-> <<95>>,   \* "_"
    x |-> <<120>>,   \* "x"
    y |-> <<121>>,   \* "y"
    z |-> <<122>>,   \* "z"
    errOpen |-> <<91, 100, 101, 99, 111, 100, 101, 95, 101, 114, 114, 111, 114, 58, 32>>,   \* "[decode_error: "
    errClose |-> <<93>>,   \* "]"
    nativeOpen |-> <<91, 110, 97, 116, 105, 118, 101, 58, 32, 48, 120>>,   \* "[native: 0x"
    eof |-> <<102, 97, 105, 108, 101, 100, 32, 116, 111, 32, 102, 105, 108, 108, 32, 119, 104, 111, 108, 101, 32, 98, 117, 102, 102, 101, 114>>,   \* "failed to fill whole buffer"
    overflow32 |-> <<86, 97, 114, 105, 110, 116, 51, 50, 32, 111, 118, 101, 114, 102, 108, 111, 119>>,   \* "Varint32 overflow"
    overflow64 |-> <<86, 97, 114, 105, 110, 116, 54, 52, 32, 111, 118, 101, 114, 102, 108, 111, 119>>,   \* "Varint64 overflow"
    containerOpen |-> <<67, 111, 110, 116, 97, 105, 110, 101, 114, 32, 39>>,   \* "Container '"
    containerClose |-> <<39, 32, 110, 111, 116, 32, 102, 111, 117, 110, 100>>,   \* "' not found"
    digits |-> <<48, 49, 50, 51, 52, 53, 54, 55, 56, 57, 97, 98, 99, 100, 101, 102>>,   \* "0123456789abcdef"
    dash |-> <<45>>,   \* "-"
    unknownType |-> <<85, 110, 107, 110, 111, 119, 110, 32, 116, 121, 112, 101, 58, 32>>,   \* "Unknown type: "
    unknownArray |-> <<85, 110, 107, 110, 111, 119, 110, 32, 97, 114, 114, 97, 121, 32, 116, 121, 112, 101, 58, 32>>,   \* "Unknown array type: "
    firstNotString |-> <<65, 114, 114, 97, 121, 32, 116, 121, 112, 101, 32, 102, 105, 114, 115, 116, 32, 101, 108, 101, 109, 101, 110, 116, 32, 109, 117, 115, 116, 32, 98, 101, 32, 115, 116, 114, 105, 110, 103>>,   \* "Array type first element must be string"
    emptySeq |-> <<65, 114, 114, 97, 121, 32, 116, 121, 112, 101, 32, 109, 117, 115, 116, 32, 104, 97, 118, 101, 32, 97, 116, 32, 108, 101, 97, 115, 116, 32, 111, 110, 101, 32, 101, 108, 101, 109, 101, 110, 116>>,   \* "Array type must have at least one element"
    invalidDef |-> <<73, 110, 118, 97, 108, 105, 100, 32, 116, 121, 112, 101, 32, 100, 101, 102, 105, 110, 105, 116, 105, 111, 110, 58, 32>>,   \* "Invalid type definition: "
    noInner |-> <<101, 110, 99, 97, 112, 115, 117, 108, 97, 116, 101, 100, 32, 114, 101, 113, 117, 105, 114, 101, 115, 32, 105, 110, 110, 101, 114, 32, 116, 121, 112, 101>>,   \* "encapsulated requires inner type"
    unknownCount |-> <<85, 110, 107, 110, 111, 119, 110, 32, 99, 111, 117, 110, 116, 32, 116, 121, 112, 101, 58, 32>> ]   \* "Unknown count type: "

----------------------------------------------------------------------------
(* Bits, least significant first. *)
ByteBits(b) == [i \in 1..8 |-> (b \div Pow2(i - 1)) % 2]
Low7(b) == [i \in 1..7 |-> (b \div Pow2(i - 1)) % 2]          \* byte & 0x7F
HasContinuation(b) == b >= 128                                 \* (byte & 0x80) != 0
Resize(bits, w) == [i \in 1..w |-> IF i <= Len(bits) THEN bits[i] ELSE 0]
LeBits(bs) == Concat([i \in 1..Len(bs) |-> ByteBits(bs[i])])   \* from_le_bytes

RECURSIVE Mag(_)
Mag(bits) ==
  IF bits = <<>> THEN <<>>
  ELSE IF bits[Len(bits)] = 0 THEN Mag(SubSeq(bits, 1, Len(bits) - 1))
  ELSE bits

RECURSIVE BitsToNat(_)
BitsToNat(bits) == IF bits = <<>> THEN 0 ELSE Head(bits) + 2 * BitsToNat(Tail(bits))

(* magnitudes below 2^30 are kept as integers of the model *)
IsSmall(bits) == Len(Mag(bits)) <= 30

RECURSIVE Increment(_)
Increment(bits) ==
  IF bits = <<>> THEN <<>>
  ELSE IF Head(bits) = 0 THEN <<1>> \o Tail(bits)
  ELSE <<0>> \o Increment(Tail(bits))

Invert(bits) == [i \in 1..Len(bits) |-> 1 - bits[i]]
Negate(bits) == Increment(Invert(bits))                        \* wrapping_neg
Xor(a, b) == [i \in 1..Len(a) |-> (a[i] + b[i]) % 2]
IsNegative(bits) == bits # <<>> /\ bits[Len(bits)] = 1

(* u64::to_string / i64::to_string: the decimal digits of a magnitude of   *)
(* up to 64 bits, held as four numbers of 16 bits, least significant first *)
Limbs(bits) ==
  [k \in 1..4 |-> BitsToNat(SubSeq(Resize(bits, 64), 16 * k - 15, 16 * k))]

(* one division by ten, from the most significant number down: the         *)
(* quotient and the remainder                                              *)
DivMod10(limbs) ==
  LET c4 == limbs[4]
      c3 == (c4 % 10) * 65536 + limbs[3]
      c2 == (c3 % 10) * 65536 + limbs[2]
      c1 == (c2 % 10) * 65536 + limbs[1]
  IN [q |-> <<c1 \div 10, c2 \div 10, c3 \div 10, c4 \div 10>>, r |-> c1 % 10]

RECURSIVE DecimalOf(_)
DecimalOf(limbs) ==
  IF DivMod10(limbs).q = <<0, 0, 0, 0>> THEN <<48 + DivMod10(limbs).r>>
  ELSE DecimalOf(DivMod10(limbs).q) \o <<48 + DivMod10(limbs).r>>

Decimal(bits) == DecimalOf(Limbs(bits))

UnsignedToString(bits) == Decimal(Mag(bits))
SignedToString(bits) ==
  IF IsNegative(bits) THEN Str.dash \o Decimal(Mag(Negate(bits)))
  ELSE Decimal(Mag(bits))

----------------------------------------------------------------------------
(* serde_json::Value.  A number is an integer of the model when it is      *)
(* below 2^30 in magnitude, and a sign with the magnitude's bits otherwise.*)
JNull == [t |-> "null"]
JBool(b) == [t |-> "bool", b |-> b]
JString(s) == [t |-> "str", s |-> s]
JArray(a) == [t |-> "array", a |-> a]
JObject(m) == [t |-> "object", m |-> m]
JInt(n) == [t |-> "num", n |-> n]
JUnsigned(bits) ==
  IF IsSmall(bits) THEN JInt(BitsToNat(Mag(bits)))
  ELSE [t |-> "num", neg |-> FALSE, mag |-> Mag(bits)]
JSigned(bits) ==
  IF ~IsNegative(bits) THEN JUnsigned(bits)
  ELSE IF IsSmall(Negate(bits)) THEN JInt(0 - BitsToNat(Mag(Negate(bits))))
  ELSE [t |-> "num", neg |-> TRUE, mag |-> Mag(Negate(bits))]
(* Number::from_f64 of a float read from the wire: None for NaN and the    *)
(* infinities (all exponent bits set), which the decoder replaces by 0.    *)
JFloat(bits, expLow) ==
  IF \A i \in expLow..(Len(bits) - 1) : bits[i] = 1 THEN JInt(0)
  ELSE [t |-> "num", float |-> bits]

(* format!("{:02x}", byte) over a buffer *)
Hex(bs) ==
  [i \in 1..(2 * Len(bs)) |->
     IF i % 2 = 1 THEN Str.digits[(bs[(i + 1) \div 2] \div 16) + 1]
     ELSE Str.digits[(bs[i \div 2] % 16) + 1]]

(* String::from_utf8_lossy: one U+FFFD per maximal invalid part *)
IsCont(bs, i) == i <= Len(bs) /\ bs[i] >= 128 /\ bs[i] <= 191
Utf8Width(b) ==
  IF b < 128 THEN 1
  ELSE IF b >= 194 /\ b <= 223 THEN 2
  ELSE IF b >= 224 /\ b <= 239 THEN 3
  ELSE IF b >= 240 /\ b <= 244 THEN 4
  ELSE 0
Utf8SecondOk(bs, lead) ==
  /\ Len(bs) >= 2
  /\ LET s == bs[2]
     IN CASE lead = 224 -> s >= 160 /\ s <= 191
          [] lead = 237 -> s >= 128 /\ s <= 159
          [] lead = 240 -> s >= 144 /\ s <= 191
          [] lead = 244 -> s >= 128 /\ s <= 143
          [] OTHER -> s >= 128 /\ s <= 191
(* [cp, used]: the next char of the lossy decoding and the bytes it covers *)
Utf8Next(bs) ==
  LET b == bs[1]
      w == Utf8Width(b)
      bad(n) == [cp |-> 65533, used |-> n, ok |-> FALSE]
  IN CASE w = 1 -> [cp |-> b, used |-> 1, ok |-> TRUE]
       [] w = 0 -> bad(1)
       [] w = 2 -> IF IsCont(bs, 2)
                   THEN [cp |-> (b - 192) * 64 + (bs[2] - 128), used |-> 2, ok |-> TRUE]
                   ELSE bad(1)
       [] w = 3 -> IF ~Utf8SecondOk(bs, b) THEN bad(1)
                   ELSE IF ~IsCont(bs, 3) THEN bad(2)
                   ELSE [cp |-> (b - 224) * 4096 + (bs[2] - 128) * 64 + (bs[3] - 128),
                         used |-> 3, ok |-> TRUE]
       [] w = 4 -> IF ~Utf8SecondOk(bs, b) THEN bad(1)
                   ELSE IF ~IsCont(bs, 3) THEN bad(2)
                   ELSE IF ~IsCont(bs, 4) THEN bad(3)
                   ELSE [cp |-> (b - 240) * 262144 + (bs[2] - 128) * 4096
                                + (bs[3] - 128) * 64 + (bs[4] - 128),
                         used |-> 4, ok |-> TRUE]
RECURSIVE FromUtf8Lossy(_)
FromUtf8Lossy(bs) ==
  IF bs = <<>> THEN <<>>
  ELSE LET nx == Utf8Next(bs)
       IN <<nx.cp>> \o FromUtf8Lossy(SubSeq(bs, nx.used + 1, Len(bs)))

(* String::from_utf8: the text of valid UTF-8, None otherwise *)
RECURSIVE FromUtf8(_)
FromUtf8(bs) ==
  IF bs = <<>> THEN Some(<<>>)
  ELSE LET nx == Utf8Next(bs)
           rest == FromUtf8(SubSeq(bs, nx.used + 1, Len(bs)))
       IN IF nx.ok /\ rest.some THEN Some(<<nx.cp>> \o rest.v) ELSE None

(* str::as_bytes of a text of ASCII characters *)
AsBytes(s) == s

(* str::to_lowercase on ASCII letters *)
ToLowercase(s) == [i \in 1..Len(s) |-> IF s[i] >= 65 /\ s[i] <= 90 THEN s[i] + 32 ELSE s[i]]

----------------------------------------------------------------------------
(* serde_yaml::Value.  A mapping keeps the order of the document. *)
YStr(s) == [y |-> "str", s |-> s]
YNum(n) == [y |-> "num", n |-> n]
YSeq(items) == [y |-> "seq", items |-> items]
YMap(pairs) == [y |-> "map", pairs |-> pairs]

(* Mapping::get with a string key *)
YGet(map, key) ==
  LET hits == {i \in 1..Len(map.pairs) : map.pairs[i][1] = YStr(key)}
  IN IF hits = {} THEN None ELSE Some(map.pairs[CHOOSE i \in hits : TRUE][2])

(* PacketBound::from_str *)
PacketBoundFromStr(s) ==
  LET l == ToLowercase(s)
  IN IF l = Str.client THEN "Client"
     ELSE IF l = Str.server THEN "Server"
     ELSE "Both"

(* str::trim_start_matches("0x") *)
RECURSIVE TrimStartMatches0x(_)
TrimStartMatches0x(s) ==
  IF IsPrefix(Str.hex, s) THEN TrimStartMatches0x(SubSeq(s, 3, Len(s))) ELSE s

HexDigitValue(c) ==
  IF c >= 48 /\ c <= 57 THEN c - 48
  ELSE IF c >= 97 /\ c <= 102 THEN c - 87
  ELSE IF c >= 65 /\ c <= 70 THEN c - 55
  ELSE 0 - 1

RECURSIVE HexValue(_, _)
HexValue(s, acc) == IF s = <<>> THEN acc ELSE HexValue(Tail(s), 16 * acc + HexDigitValue(Head(s)))

(* u32::from_str_radix(id_str.trim_start_matches("0x"), 16); the model     *)
(* covers the ids of up to seven hex digits.                               *)
ParseHexId(id_str) ==
  LET t == TrimStartMatches0x(id_str)
      digits == IF t # <<>> /\ Head(t) = 43 THEN Tail(t) ELSE t
  IN IF digits = <<>> \/ Len(digits) > 7
        \/ \E i \in 1..Len(digits) : HexDigitValue(digits[i]) < 0
     THEN [ok |-> FALSE]
     ELSE [ok |-> TRUE, v |-> HexValue(digits, 0)]

(* the loop over one packet definition's keys, load_from_file lines 156-183 *)
RECURSIVE ReadPacketDef(_, _, _)
ReadPacketDef(pairs, i, acc) ==
  IF i > Len(pairs) \/ ~acc.ok THEN acc
  ELSE LET k == pairs[i][1]
           v == pairs[i][2]
       IN IF k.y # "str" THEN ReadPacketDef(pairs, i + 1, acc)
          ELSE IF k.s = Str.id THEN
                 IF v.y = "str" THEN
                   LET p == ParseHexId(v.s)
                   IN IF p.ok
                      THEN ReadPacketDef(pairs, i + 1, [acc EXCEPT !.packet_id = Some(p.v)])
                      ELSE [acc EXCEPT !.ok = FALSE]
                 ELSE IF v.y = "num" /\ v.n >= 0
                      THEN ReadPacketDef(pairs, i + 1, [acc EXCEPT !.packet_id = Some(v.n)])
                 ELSE ReadPacketDef(pairs, i + 1, acc)
          ELSE IF k.s = Str.bound THEN
                 IF v.y = "str"
                 THEN ReadPacketDef(pairs, i + 1, [acc EXCEPT !.bound = PacketBoundFromStr(v.s)])
                 ELSE ReadPacketDef(pairs, i + 1, acc)
          ELSE ReadPacketDef(pairs, i + 1, [acc EXCEPT !.fields = Put(acc.fields, k.s, v)])

(* a container's fields: its string keys that do not start with "!" *)
RECURSIVE ContainerFields(_, _, _)
ContainerFields(pairs, i, acc) ==
  IF i > Len(pairs) THEN acc
  ELSE LET k == pairs[i][1]
       IN IF k.y = "str" /\ ~IsPrefix(Str.bang, k.s)
          THEN ContainerFields(pairs, i + 1, Put(acc, k.s, pairs[i][2]))
          ELSE ContainerFields(pairs, i + 1, acc)

LoadError == [ok |-> FALSE]
EmptyParser ==
  [ok |-> TRUE, packet_id_to_info |-> EmptyMap, clientbound_ids |-> <<>>,
   serverbound_ids |-> <<>>, type_aliases |-> EmptyMap, containers |-> EmptyMap]

(* one top-level entry of the document, load_from_file lines 147-230 *)
LoadEntry(p, key, value) ==
  IF key.y # "str" THEN p
  ELSE IF IsPrefix(Str.packet, key.s) THEN
    IF value.y # "map" THEN p
    ELSE LET d == ReadPacketDef(value.pairs, 1,
                    [ok |-> TRUE, packet_id |-> None, bound |-> "Both", fields |-> EmptyMap])
         IN IF ~d.ok THEN LoadError
            ELSE IF ~d.packet_id.some THEN p
            ELSE LET id == d.packet_id.v
                     info == [id |-> id, name |-> key.s, bound |-> d.bound, fields |-> d.fields]
                 IN [p EXCEPT
                       !.packet_id_to_info = Put(p.packet_id_to_info, id, info),
                       !.clientbound_ids =
                          IF d.bound \in {"Client", "Both"} THEN Append(@, id) ELSE @,
                       !.serverbound_ids =
                          IF d.bound \in {"Server", "Both"} THEN Append(@, id) ELSE @]
  ELSE IF IsPrefix(Str.bang, key.s) THEN p
  ELSE IF value.y \in {"seq", "str"} THEN
    [p EXCEPT !.type_aliases = Put(p.type_aliases, key.s, value)]
  ELSE IF value.y = "map" THEN
    LET fs == ContainerFields(value.pairs, 1, EmptyMap)
    IN IF fs = EmptyMap THEN p ELSE [p EXCEPT !.containers = Put(p.containers, key.s, fs)]
  ELSE p

RECURSIVE LoadEntries(_, _, _)
LoadEntries(pairs, i, p) ==
  IF i > Len(pairs) \/ ~p.ok THEN p
  ELSE LoadEntries(pairs, i + 1, LoadEntry(p, pairs[i][1], pairs[i][2]))

(* ProtocolParser::load_from_file on a parsed document *)
LoadFromFile(yaml) ==
  IF yaml.y = "map" THEN LoadEntries(yaml.pairs, 1, EmptyParser) ELSE EmptyParser

----------------------------------------------------------------------------
(* ProtoType and CountType, protocol.rs lines 48-104 *)
Ty(k) == [k |-> k]
TyCounted(k, count) == [k |-> k, count |-> count]
TyArray(elem, count) == [k |-> "Array", elem |-> elem, count |-> count]
TyEncapsulated(inner) == [k |-> "Encapsulated", inner |-> inner]
TyContainer(name) == [k |-> "Container", name |-> name]
TyNative(tag) == [k |-> "Native", tag |-> tag]

TypeOk(t) == [ok |-> TRUE, ty |-> t]
TypeErr(msg) == [ok |-> FALSE, msg |-> msg]

(* the table of parse_count_type and of the array suffix *)
CountTypeNamed(s) ==
  CASE s = Str.varint -> Some("VarInt")
    [] s = Str.zigzag32 -> Some("ZigZag32")
    [] s = Str.li16 -> Some("LI16")
    [] s = Str.li32 -> Some("LI32")
    [] s = Str.li64 -> Some("LI64")
    [] s = Str.lu16 -> Some("LU16")
    [] s = Str.lu32 -> Some("LU32")
    [] OTHER -> None

ParseCountType(yaml_value) ==
  IF yaml_value.y # "map" THEN [ok |-> TRUE, count |-> "VarInt"]
  ELSE LET c == YGet(yaml_value, Str.countType)
       IN IF c.some /\ c.v.y = "str" THEN
            LET named == CountTypeNamed(c.v.s)
            IN IF named.some THEN [ok |-> TRUE, count |-> named.v]
               ELSE TypeErr(Str.unknownCount \o c.v.s)
          ELSE [ok |-> TRUE, count |-> "VarInt"]

(* the match on the primitive keywords, parse_type_string lines 478-510 *)
PrimitiveType(s) ==
  CASE s = Str.i8 -> Some(Ty("I8"))
    [] s = Str.u8 -> Some(Ty("U8"))
    [] s = Str.i16 -> Some(Ty("I16"))
    [] s = Str.u16 -> Some(Ty("U16"))
    [] s = Str.i32 -> Some(Ty("I32"))
    [] s = Str.u32 -> Some(Ty("U32"))
    [] s = Str.i64 -> Some(Ty("I64"))
    [] s = Str.u64 -> Some(Ty("U64"))
    [] s = Str.f32 -> Some(Ty("F32"))
    [] s = Str.f64 -> Some(Ty("F64"))
    [] s = Str.bool -> Some(Ty("Bool"))
    [] s = Str.varint \/ s = Str.varint32 -> Some(Ty("VarInt32"))
    [] s = Str.varint64 -> Some(Ty("VarInt64"))
    [] s = Str.zigzag32 -> Some(Ty("ZigZag32"))
    [] s = Str.zigzag64 -> Some(Ty("ZigZag64"))
    [] s = Str.li16 -> Some(Ty("LI16"))
    [] s = Str.li32 -> Some(Ty("LI32"))
    [] s = Str.li64 -> Some(Ty("LI64"))
    [] s = Str.lu16 -> Some(Ty("LU16"))
    [] s = Str.lu32 -> Some(Ty("LU32"))
    [] s = Str.lu64 -> Some(Ty("LU64"))
    [] s = Str.string -> Some(TyCounted("String", "VarInt"))
    [] s = Str.LittleString -> Some(Ty("LittleString"))
    [] s = Str.ShortString -> Some(Ty("ShortString"))
    [] s = Str.LatinString -> Some(Ty("LatinString"))
    [] s = Str.uuid -> Some(Ty("UUID"))
    [] s = Str.vec2f -> Some(Ty("Vec2F"))
    [] s = Str.vec3f -> Some(Ty("Vec3F"))
    [] s = Str.restBuffer -> Some(Ty("RestBuffer"))
    [] OTHER -> None

(* str::trim_start_matches("native:") *)
RECURSIVE TrimStartMatchesNative(_)
TrimStartMatchesNative(s) ==
  IF IsPrefix(Str.native, s)
  THEN TrimStartMatchesNative(SubSeq(s, Len(Str.native) + 1, Len(s)))
  ELSE s

RECURSIVE ParseType(_), ParseTypeString(_)

(* parse_type_string with the [] suffix tried first, then native:, the    *)
(* primitive keywords, the aliases and the containers                      *)
ParseTypeStringKeywordsFirst(type_str) ==
  LET bracket_pos == Find(type_str, Str.brackets)
  IN IF bracket_pos # 0 THEN
       LET element == ParseTypeString(SubSeq(type_str, 1, bracket_pos - 1))
           named == CountTypeNamed(SubSeq(type_str, bracket_pos + 2, Len(type_str)))
       IN IF ~element.ok THEN element
          ELSE TypeOk(TyArray(element.ty, IF named.some THEN named.v ELSE "VarInt"))
     ELSE IF IsPrefix(Str.native, type_str)
     THEN TypeOk(TyNative(TrimStartMatchesNative(type_str)))
     ELSE IF PrimitiveType(type_str).some THEN TypeOk(PrimitiveType(type_str).v)
     ELSE IF Has(parser.type_aliases, type_str) THEN ParseType(parser.type_aliases[type_str])
     ELSE IF Has(parser.containers, type_str) THEN TypeOk(TyContainer(type_str))
     ELSE TypeErr(Str.unknownType \o type_str)

(* BinaryDecoder::parse_type_string: aliases, then the [] suffix, then the *)
(* containers, then the primitive keywords and native:                     *)
ParseTypeString(type_str) ==
  IF Has(parser.type_aliases, type_str) THEN ParseType(parser.type_aliases[type_str])
  ELSE LET bracket_pos == Find(type_str, Str.brackets)
       IN IF bracket_pos # 0 THEN
            LET element == ParseTypeString(SubSeq(type_str, 1, bracket_pos - 1))
                named == CountTypeNamed(SubSeq(type_str, bracket_pos + 2, Len(type_str)))
            IN IF ~element.ok THEN element
               ELSE TypeOk(TyArray(element.ty, IF named.some THEN named.v ELSE "VarInt"))
          ELSE IF Has(parser.containers, type_str) THEN TypeOk(TyContainer(type_str))
          ELSE LET prim == PrimitiveType(type_str)
               IN IF prim.some THEN TypeOk(prim.v)
                  ELSE IF IsPrefix(Str.native, type_str)
                       THEN TypeOk(TyNative(TrimStartMatchesNative(type_str)))
                  ELSE TypeErr(Str.unknownType \o type_str)

(* BinaryDecoder::parse_type *)
ParseType(yaml_value) ==
  IF yaml_value.y = "str" THEN ParseTypeString(yaml_value.s)
  ELSE IF yaml_value.y = "seq" THEN
    LET seq == yaml_value.items
    IN IF Len(seq) = 0 THEN TypeErr(Str.emptySeq)
       ELSE IF seq[1].y # "str" THEN TypeErr(Str.firstNotString)
       ELSE LET first == seq[1].s
            IN IF first \in {Str.buffer, Str.Buffer, Str.pstring} THEN
                 LET ct == IF Len(seq) >= 2 THEN ParseCountType(seq[2])
                           ELSE [ok |-> TRUE, count |-> "VarInt"]
                 IN IF ~ct.ok THEN ct
                    ELSE TypeOk(TyCounted(IF first = Str.pstring THEN "String" ELSE "Buffer",
                                          ct.count))
               ELSE IF first = Str.encapsulated THEN
                 IF Len(seq) < 2 THEN TypeErr(Str.noInner)
                 ELSE LET inner == ParseType(seq[2])
                      IN IF ~inner.ok THEN inner ELSE TypeOk(TyEncapsulated(inner.ty))
               ELSE TypeErr(Str.unknownArray \o first)
  ELSE TypeErr(Str.invalidDef)

----------------------------------------------------------------------------
(* BinaryDecoder: a cursor (bytes, pos) over the packet's bytes.  A read   *)
(* answers [ok, ..., pos]: the value and the cursor's position after it.   *)
ReadOk(x, pos) == [ok |-> TRUE, v |-> x, pos |-> pos]
ReadErr(msg, pos) == [ok |-> FALSE, msg |-> msg, pos |-> pos]
(* a panic of the Rust code: it unwinds through every caller *)
ReadPanic(what) == [ok |-> FALSE, panic |-> what, msg |-> <<>>, pos |-> 0]
IsPanic(r) == ~r.ok /\ "panic" \in DOMAIN r

(* Cursor::read_exact.  On a short read the cursor stays where it was or   *)
(* is placed at the end, as the standard library in use does.              *)
ReadExact(bytes, pos, n) ==
  IF pos + n <= Len(bytes) THEN ReadOk(SubSeq(bytes, pos + 1, pos + n), pos + n)
  ELSE ReadErr(Str.eof, IF eof_seeks THEN Len(bytes) ELSE pos)

(* for _ in 0..max of read_varint32 / read_varint64 *)
RECURSIVE ReadVarint(_, _, _, _, _, _)
ReadVarint(bytes, pos, i, max, width, acc) ==
  IF i = max THEN ReadErr(IF width = 32 THEN Str.overflow32 ELSE Str.overflow64, pos)
  ELSE LET r == ReadExact(bytes, pos, 1)
       IN IF ~r.ok THEN r
          ELSE IF ~HasContinuation(r.v[1])
               THEN ReadOk(Resize(acc \o Low7(r.v[1]), width), r.pos)
               ELSE ReadVarint(bytes, r.pos, i + 1, max, width, acc \o Low7(r.v[1]))

ReadVarint32(bytes, pos) == ReadVarint(bytes, pos, 0, 5, 32, <<>>)
ReadVarint64(bytes, pos) == ReadVarint(bytes, pos, 0, 10, 64, <<>>)

(* the same with the shift made on the signed integer, which keeps the    *)
(* sign bit: ((value as iN) >> 1) ^ (-((value & 1) as iN))                 *)
ZigZagSignedShift(bits) ==
  Xor(Tail(bits) \o <<bits[Len(bits)]>>, [i \in 1..Len(bits) |-> bits[1]])

(* ((value >> 1) as iN) ^ (-((value & 1) as iN)) *)
ZigZag(bits) ==
  Xor(Tail(bits) \o <<0>>, [i \in 1..Len(bits) |-> bits[1]])

(* `as u32` of a signed or unsigned integer of another width *)
AsU32(bits, signed) ==
  [i \in 1..32 |-> IF i <= Len(bits) THEN bits[i]
                   ELSE IF signed /\ IsNegative(bits) THEN 1 ELSE 0]

(* Ok(f(x?)): the value of a read that succeeded, passed through f *)
MapOk(r, F(_)) == IF r.ok THEN ReadOk(F(r.v), r.pos) ELSE r

(* a fixed-width little-endian integer: its bits *)
ReadLe(bytes, pos, n) == MapOk(ReadExact(bytes, pos, n), LeBits)

(* BinaryDecoder::read_count: a u32 *)
ReadCount(bytes, pos, count_type) ==
  CASE count_type = "VarInt" -> ReadVarint32(bytes, pos)
    [] count_type = "ZigZag32" -> MapOk(ReadVarint32(bytes, pos), ZigZag)
    [] count_type \in {"LI16", "LI32", "LI64"} ->
         MapOk(ReadLe(bytes, pos, CASE count_type = "LI16" -> 2
                                    [] count_type = "LI32" -> 4
                                    [] OTHER -> 8),
               LAMBDA b : AsU32(b, TRUE))
    [] count_type \in {"LU16", "LU32"} ->
         MapOk(ReadLe(bytes, pos, IF count_type = "LU16" THEN 2 ELSE 4),
               LAMBDA b : AsU32(b, FALSE))

(* vec![0u8; len as usize] and read_exact into it, c the count read *)
ReadLength(c, bytes) ==
  IF ~c.ok THEN c
  ELSE IF ~IsSmall(c.v) THEN ReadExact(bytes, c.pos, Len(bytes) + 1)
  ELSE ReadExact(bytes, c.pos, BitsToNat(Mag(c.v)))

ReadCounted(bytes, pos, count_type) == ReadLength(ReadCount(bytes, pos, count_type), bytes)

(* the UUID rendering: a dash before the bytes 4, 6, 8 and 10 *)
UuidString(buf) ==
  Concat([i \in 1..16 |->
            (IF (i - 1) \in {4, 6, 8, 10} THEN Str.dash ELSE <<>>) \o Hex(<<buf[i]>>)])

DecodeErrorMarker(msg) == JString(Str.errOpen \o msg \o Str.errClose)

(* the name of a field that decode_fields skips *)
IsSkipped(field_name) == field_name = Str.skip \/ IsPrefix(Str.bang, field_name)

RECURSIVE DecodeValue(_, _, _), DecodeFieldsFrom(_, _, _, _, _, _), DecodeArray(_, _, _, _, _),
          DecodeFloats(_, _, _, _)

(* match self.decode_value(&proto_type), r the outcome for the field i: a  *)
(* value is inserted and the loop goes on, an error leaves a marker and    *)
(* ends the loop.                                                          *)
FieldDecoded(r, field_defs, fields, i, result, bytes) ==
  IF IsPanic(r) THEN r
  ELSE IF r.ok
  THEN DecodeFieldsFrom(field_defs, fields, i + 1, Put(result, fields[i], r.v), bytes, r.pos)
  ELSE [ok |-> TRUE, v |-> Put(result, fields[i], DecodeErrorMarker(r.msg)), pos |-> r.pos]

(* self.parse_type(field_type)?, then the field's value *)
FieldTyped(proto_type, field_defs, fields, i, result, bytes, pos) ==
  IF ~proto_type.ok THEN ReadErr(proto_type.msg, pos)
  ELSE FieldDecoded(DecodeValue(proto_type.ty, bytes, pos), field_defs, fields, i, result,
                    bytes)

(* BinaryDecoder::decode_fields: the fields sorted by key, one after the   *)
(* other; a type that does not parse ends the call with an error, a value  *)
(* that does not decode leaves a marker and ends the loop.                 *)
DecodeFieldsFrom(field_defs, fields, i, result, bytes, pos) ==
  IF i > Len(fields) THEN [ok |-> TRUE, v |-> result, pos |-> pos]
  ELSE IF IsSkipped(fields[i])
  THEN DecodeFieldsFrom(field_defs, fields, i + 1, result, bytes, pos)
  ELSE FieldTyped(ParseType(field_defs[fields[i]]), field_defs, fields, i, result, bytes, pos)

FieldOrder(field_defs) == SortedKeys(DOMAIN field_defs)

DecodeFields(field_defs, bytes, pos) ==
  DecodeFieldsFrom(field_defs, FieldOrder(field_defs), 1, EmptyMap, bytes, pos)

(* array.push(self.decode_value(element_type)?), r the element read *)
ElementDecoded(r, element_type, left, array, bytes) ==
  IF ~r.ok THEN r
  ELSE DecodeArray(element_type, left - 1, Append(array, r.v), bytes, r.pos)

(* for _ in 0..count { array.push(self.decode_value(element_type)?) }.     *)
(* A count of 2^30 or more is followed until the first element fails,      *)
(* which an element type that reads at least one byte does within          *)
(* Len(bytes) + 1 rounds (the documents below have no other element type). *)
DecodeArray(element_type, left, array, bytes, pos) ==
  IF left = 0 THEN ReadOk(JArray(array), pos)
  ELSE ElementDecoded(DecodeValue(element_type, bytes, pos), element_type, left, array, bytes)

(* n.as_f64() of the component read *)
AsF64(n) ==
  IF n = JInt(0) THEN Some(Resize(<<>>, 32))
  ELSE IF "float" \in DOMAIN n THEN Some(n.float)
  ELSE None

(* Number::from_f64(x).unwrap() of the component r, inserted under the     *)
(* first of the names                                                      *)
ComponentDecoded(r, names, object, bytes) ==
  IF ~r.ok THEN r
  ELSE IF ~AsF64(r.v).some THEN ReadPanic("unwrap on None")
  ELSE DecodeFloats(Tail(names),
                    Put(object, Head(names), [t |-> "num", float |-> AsF64(r.v).v]),
                    bytes, r.pos)

(* the two or three f32 components of Vec2F / Vec3F *)
DecodeFloats(names, object, bytes, pos) ==
  IF names = <<>> THEN ReadOk(JObject(object), pos)
  ELSE ComponentDecoded(DecodeValue(Ty("F32"), bytes, pos), names, object, bytes)

SignedNumber(r) == MapOk(r, JSigned)
UnsignedNumber(r) == MapOk(r, JUnsigned)
Text(r) == MapOk(r, LAMBDA b : JString(FromUtf8Lossy(b)))

(* a u64: a JSON number, or its decimal digits once it passes i64::MAX *)
Unsigned64(bits) ==
  IF ~IsNegative(bits) THEN JUnsigned(bits) ELSE JString(UnsignedToString(bits))

(* the elements of an array, c the count read *)
ArrayCounted(c, element_type, bytes) ==
  IF ~c.ok THEN c
  ELSE DecodeArray(element_type,
                   IF IsSmall(c.v) THEN BitsToNat(Mag(c.v)) ELSE Len(bytes) + 1,
                   <<>>, bytes, c.pos)

(* the inner value of an encapsulated one, len the length read *)
EncapsulatedInner(len, inner_type, bytes) ==
  IF ~len.ok THEN len ELSE DecodeValue(inner_type, bytes, len.pos)

(* a Native that takes all that is left *)
NativeLengthUnlimited(remaining) == remaining

(* remaining.min(1024): a Native reads at most 1 KB *)
NativeLength(remaining) == Min(remaining, 1024)

(* BinaryDecoder::decode_value *)
DecodeValue(proto_type, bytes, pos) ==
  LET k == proto_type.k
  IN CASE k = "I8" -> SignedNumber(ReadLe(bytes, pos, 1))
       [] k = "U8" -> UnsignedNumber(ReadLe(bytes, pos, 1))
       [] k \in {"I16", "LI16"} -> SignedNumber(ReadLe(bytes, pos, 2))
       [] k \in {"U16", "LU16"} -> UnsignedNumber(ReadLe(bytes, pos, 2))
       [] k \in {"I32", "LI32"} -> SignedNumber(ReadLe(bytes, pos, 4))
       [] k \in {"U32", "LU32"} -> UnsignedNumber(ReadLe(bytes, pos, 4))
       [] k = "I64" -> SignedNumber(ReadLe(bytes, pos, 8))
       [] k = "U64" -> MapOk(ReadLe(bytes, pos, 8), Unsigned64)
       [] k = "F32" -> MapOk(ReadLe(bytes, pos, 4), LAMBDA b : JFloat(b, 24))
       [] k = "F64" -> MapOk(ReadLe(bytes, pos, 8), LAMBDA b : JFloat(b, 53))
       [] k = "Bool" -> MapOk(ReadExact(bytes, pos, 1), LAMBDA b : JBool(b[1] # 0))
       [] k = "VarInt32" -> UnsignedNumber(ReadVarint32(bytes, pos))
       [] k = "VarInt64" -> MapOk(ReadVarint64(bytes, pos), Unsigned64)
       [] k = "ZigZag32" -> MapOk(ReadVarint32(bytes, pos), LAMBDA b : JSigned(ZigZag(b)))
       [] k = "ZigZag64" ->
            MapOk(ReadVarint64(bytes, pos), LAMBDA b : JString(SignedToString(ZigZag(b))))
       [] k = "LI64" -> MapOk(ReadLe(bytes, pos, 8), LAMBDA b : JString(SignedToString(b)))
       [] k = "LU64" -> MapOk(ReadLe(bytes, pos, 8), LAMBDA b : JString(UnsignedToString(b)))
       [] k = "String" -> Text(ReadCounted(bytes, pos, proto_type.count))
       [] k = "LittleString" -> Text(ReadCounted(bytes, pos, "LI32"))
       [] k = "ShortString" -> Text(ReadCounted(bytes, pos, "LI16"))
       [] k = "LatinString" -> MapOk(ReadCounted(bytes, pos, "VarInt"), JString)
       [] k = "UUID" -> MapOk(ReadExact(bytes, pos, 16), LAMBDA b : JString(UuidString(b)))
       [] k = "Vec2F" -> DecodeFloats(<<Str.x, Str.y>>, EmptyMap, bytes, pos)
       [] k = "Vec3F" -> DecodeFloats(<<Str.x, Str.y, Str.z>>, EmptyMap, bytes, pos)
       [] k = "Buffer" ->
            MapOk(ReadCounted(bytes, pos, proto_type.count),
                  LAMBDA b : JString(Str.hex \o Hex(b)))
       [] k = "Array" ->
            ArrayCounted(ReadCount(bytes, pos, proto_type.count), proto_type.elem, bytes)
       [] k = "Encapsulated" ->
            EncapsulatedInner(ReadVarint32(bytes, pos), proto_type.inner, bytes)
       [] k = "Container" ->
            IF Has(parser.containers, proto_type.name)
            THEN MapOk(DecodeFields(parser.containers[proto_type.name], bytes, pos), JObject)
            ELSE ReadErr(Str.containerOpen \o proto_type.name \o Str.containerClose, pos)
       [] k = "Native" ->
            \* remaining = len - position, at most 1 KB of it
            IF pos > Len(bytes) THEN ReadPanic("attempt to subtract with overflow")
            ELSE MapOk(ReadExact(bytes, pos, NativeLength(Len(bytes) - pos)),
                       LAMBDA b : JString(Str.nativeOpen \o Hex(b) \o Str.errClose))
       [] k = "RestBuffer" ->
            IF pos > Len(bytes) THEN ReadPanic("attempt to subtract with overflow")
            ELSE MapOk(ReadExact(bytes, pos, Len(bytes) - pos),
                       LAMBDA b : JString(Str.hex \o Hex(b)))
----------------------------------------------------------------------------
(* ProtocolParser::extract_packet_id and decode_packet *)
U32Value(bits) == IF IsSmall(bits) THEN BitsToNat(Mag(bits)) ELSE [big |-> Mag(bits)]

(* the bytes among the first five that end a varint *)
VarintStops(d) == {i \in 1..Min(5, Len(d)) : ~HasContinuation(d[i])}
FirstStop(d) == CHOOSE i \in VarintStops(d) : \A j \in VarintStops(d) : i <= j

ExtractPacketId(d) ==
  IF d = <<>> THEN None
  ELSE IF VarintStops(d) # {}
       THEN Some(U32Value(Resize(Concat([i \in 1..FirstStop(d) |-> Low7(d[i])]), 32)))
       ELSE Some(d[1])

GetPacketInfo(id) ==
  IF id \in Int /\ Has(parser.packet_id_to_info, id)
  THEN Some(parser.packet_id_to_info[id])
  ELSE None

(* the five bytes a varint32 has at most, whatever the data holds *)
IdSizeAlwaysFive(d) == 5

(* the size of the id's varint as decode_packet counts it, lines 306-318 *)
IdSize(d) == IF VarintStops(d) # {} THEN FirstStop(d) ELSE Min(5, Len(d))

NoResult == [kind |-> "NoResult"]
Panicked(what) == [kind |-> "Panic", what |-> what]

DecodedPacket(packet_id, packet_name, fields) ==
  [kind |-> "DecodedPacket", packet_id |-> packet_id, packet_name |-> packet_name,
   fields |-> fields]

(* match decoder.decode_fields(&info.fields), r its outcome *)
FieldsDecoded(r, packet_id, packet_name) ==
  IF IsPanic(r) THEN Panicked(r.panic)
  ELSE IF r.ok THEN DecodedPacket(packet_id, packet_name, r.v)
  ELSE DecodedPacket(packet_id, packet_name, EmptyMap)

(* the packet once its id is extracted and looked up, lines 295-342 *)
DecodeKnown(packet_id, packet_info, d) ==
  IF ~packet_info.some THEN DecodedPacket(packet_id, None, EmptyMap)
  ELSE IF IdSize(d) > Len(d) THEN Panicked("range start index out of range")
  ELSE FieldsDecoded(DecodeFields(packet_info.v.fields,
                                    SubSeq(d, IdSize(d) + 1, Len(d)), 0),
                       packet_id, Some(packet_info.v.name))

(* packet_id.and_then(|id| self.get_packet_info(id)) *)
AndThenGetPacketInfo(packet_id) ==
  IF packet_id.some THEN GetPacketInfo(packet_id.v) ELSE None

DecodePacket(d, dir) ==
  DecodeKnown(ExtractPacketId(d), AndThenGetPacketInfo(ExtractPacketId(d)), d)
(* The names used by the documents below, as code points. *)
Name ==
  [ payload |-> <<112, 97, 121, 108, 111, 97, 100>>,   \* "payload"
    zed |-> <<122, 101, 100>>,   \* "zed"
    alpha |-> <<97, 108, 112, 104, 97>>,   \* "alpha"
    a |-> <<97>>,   \* "a"
    b |-> <<98>>,   \* "b"
    x |-> <<120>>,   \* "x"
    code |-> <<99, 111, 100, 101>>,   \* "code"
    list |-> <<108, 105, 115, 116>>,   \* "list"
    flag |-> <<102, 108, 97, 103>>,   \* "flag"
    inner |-> <<105, 110, 110, 101, 114>>,   \* "inner"
    tiny |-> <<116, 105, 110, 121>>,   \* "tiny"
    a_inner |-> <<97, 95, 105, 110, 110, 101, 114>>,   \* "a_inner"
    b_next |-> <<98, 95, 110, 101, 120, 116>>,   \* "b_next"
    packet_nested |-> <<112, 97, 99, 107, 101, 116, 95, 110, 101, 115, 116, 101, 100>>,   \* "packet_nested"
    packet_ping |-> <<112, 97, 99, 107, 101, 116, 95, 112, 105, 110, 103>>,   \* "packet_ping"
    packet_status_c |-> <<112, 97, 99, 107, 101, 116, 95, 115, 116, 97, 116, 117, 115, 95, 99>>,   \* "packet_status_c"
    packet_status_s |-> <<112, 97, 99, 107, 101, 116, 95, 115, 116, 97, 116, 117, 115, 95, 115>>,   \* "packet_status_s"
    packet_order |-> <<112, 97, 99, 107, 101, 116, 95, 111, 114, 100, 101, 114>>,   \* "packet_order"
    packet_wrap |-> <<112, 97, 99, 107, 101, 116, 95, 119, 114, 97, 112>>,   \* "packet_wrap"
    packet_odd |-> <<112, 97, 99, 107, 101, 116, 95, 111, 100, 100>>,   \* "packet_odd"
    first |-> <<102, 105, 114, 115, 116>>,   \* "first"
    second |-> <<115, 101, 99, 111, 110, 100>>,   \* "second"
    mystery |-> <<109, 121, 115, 116, 101, 114, 121>>,   \* "mystery"
    u8_arr_varint |-> <<117, 56, 91, 93, 118, 97, 114, 105, 110, 116>> ]   \* "u8[]varint"

(* The protocol documents of the model: the packets of one document, with  *)
(* the two definitions of id 2 in either order.                            *)
YField(name, type) == <<YStr(name), type>>
YPacket(name, id, bound, fields) ==
  <<YStr(name), YMap(<<YField(Str.id, YNum(id)), YField(Str.bound, YStr(bound))>> \o fields)>>

PacketNested ==
  YPacket(Name.packet_nested, 0, Str.both,
          <<YField(Name.a, YStr(Name.inner)), YField(Name.b, YStr(Str.u8))>>)
PacketPing ==
  YPacket(Name.packet_ping, 1, Str.both, <<YField(Name.payload, YStr(Str.u8))>>)
PacketStatusC ==
  YPacket(Name.packet_status_c, 2, Str.client,
          <<YField(Name.code, YStr(Str.varint)), YField(Name.list, YStr(Name.u8_arr_varint))>>)
PacketStatusS ==
  YPacket(Name.packet_status_s, 2, Str.server, <<YField(Name.flag, YStr(Name.tiny))>>)
PacketOrder ==
  YPacket(Name.packet_order, 129, Str.both,
          <<YField(Name.zed, YStr(Str.u8)), YField(Name.alpha, YStr(Str.u8))>>)
PacketWrap ==
  YPacket(Name.packet_wrap, 257, Str.both,
          <<YField(Name.a_inner, YSeq(<<YStr(Str.encapsulated), YStr(Str.u8)>>)),
            YField(Name.b_next, YStr(Str.u8))>>)
PacketOdd ==
  YPacket(Name.packet_odd, 16513, Str.both,
          <<YField(Name.first, YStr(Str.u8)), YField(Name.second, YStr(Name.mystery))>>)
TypeDefs ==
  << <<YStr(Name.tiny), YStr(Str.u8)>>,
     <<YStr(Name.inner), YMap(<<YField(Name.x, YStr(Str.string))>>)>> >>

Documents ==
  { YMap(<<PacketNested, PacketPing, PacketStatusC, PacketStatusS, PacketOrder, PacketWrap,
           PacketOdd>>
         \o TypeDefs),
    YMap(<<PacketNested, PacketPing, PacketStatusS, PacketStatusC, PacketOrder, PacketWrap,
           PacketOdd>>
         \o TypeDefs) }

(* the packet definitions of a document, in its order *)
DocPackets(doc) ==
  SelectSeq(doc.pairs, LAMBDA e : IsPrefix(Str.packet, e[1].s))

----------------------------------------------------------------------------
(* The decoder's inputs. *)
MaxBytes == 6
Bytes == {0, 1, 2, 129}
ByteSeqs == UNION {[1..n -> Bytes] : n \in 0..MaxBytes}
Directions == {"Clientbound", "Serverbound"}

(* the parts of the state that a specification leaves alone *)
NoDecoder ==
  /\ parser = EmptyParser
  /\ eof_seeks = FALSE
  /\ data = <<>>
  /\ direction = "Clientbound"
  /\ decoded = NoResult
  /\ call_stack = <<>>
  /\ resolved = NoResult
NoLogger ==
  /\ now = 0
  /\ file = <<>>
  /\ writer = <<>>
  /\ lock = "free"
  /\ tasks = <<>>
  /\ logged = <<>>
  /\ acquired = <<>>
  /\ loaded = NoResult
NoRun ==
  /\ pc = "recv_from"
  /\ guards = {}
  /\ send_calls = <<>>
NoProxy ==
  /\ sessions = EmptyMap
  /\ sent = <<>>
  /\ reported = <<>>
  /\ received = <<>>
  /\ new_sessions = <<>>
  /\ hasher = <<>>
  /\ NoRun
NoDiff ==
  /\ baseline = [t |-> "null"]
  /\ current = [t |-> "null"]
  /\ diff = NoResult
  /\ diff_lines = <<>>
NoFilter ==
  /\ filter_input = <<>>
  /\ filter = NoResult
  /\ filter_text = <<>>
NoQuery ==
  /\ db_packets = <<>>
  /\ query = NoResult
  /\ rows = NoResult
NoInspector == app = NoResult
NoViewer == NoDiff /\ NoFilter /\ NoQuery /\ NoInspector

InitDecode ==
  /\ parser \in {LoadFromFile(doc) : doc \in Documents}
  /\ eof_seeks \in BOOLEAN
  /\ data \in ByteSeqs
  /\ direction \in Directions
  /\ decoded = NoResult
  /\ call_stack = <<>>
  /\ resolved = NoResult
  /\ NoLogger
  /\ NoProxy
  /\ NoViewer

(* one call of decode_packet *)
Decode ==
  /\ decoded = NoResult
  /\ decoded' = DecodePacket(data, direction)
  /\ UNCHANGED <<parser, eof_seeks, data, direction, call_stack, resolved, loggerVars, proxyVars, viewerVars>>

NextDecode == Decode

SpecDecode == InitDecode /\ [][NextDecode]_vars

----------------------------------------------------------------------------
(* Properties of decode_packet. *)
Payload(d) == SubSeq(d, IdSize(d) + 1, Len(d))
IsMarker(value) == value.t = "str" /\ IsPrefix(Str.errOpen, value.s)

RECURSIVE HasMarker(_)
HasMarker(value) ==
  \/ IsMarker(value)
  \/ value.t = "object" /\ \E k \in DOMAIN value.m : HasMarker(value.m[k])
  \/ value.t = "array" /\ \E i \in DOMAIN value.a : HasMarker(value.a[i])

Named(name) ==
  decoded.kind = "DecodedPacket" /\ decoded.packet_name = Some(name)

C4_FailureStopsDecoding ==
  (decoded.kind = "DecodedPacket" /\ decoded.packet_name.some) =>
    LET order == FieldOrder(GetPacketInfo(decoded.packet_id.v).v.fields)
    IN \A i \in 1..Len(order) :
         (order[i] \in DOMAIN decoded.fields /\ HasMarker(decoded.fields[order[i]])) =>
           /\ decoded.packet_id.some
           /\ \A j \in 1..(i - 1) :
                order[j] \in DOMAIN decoded.fields /\ ~HasMarker(decoded.fields[order[j]])
           /\ \A j \in (i + 1)..Len(order) : order[j] \notin DOMAIN decoded.fields

(* C5: decode_fields decodes the fields in the order of the schema (the    *)
(* wire order), whatever their names: the result is the one of decoding    *)
(* packet_order's zed before its alpha.                                    *)
C5_SchemaOrder ==
  Named(Name.packet_order) =>
    decoded.fields =
      DecodeFieldsFrom(GetPacketInfo(129).v.fields, <<Name.zed, Name.alpha>>, 1,
                       EmptyMap, Payload(data), 0).v

(* C6: an Encapsulated(T) at position P whose length varint N takes k      *)
(* bytes leaves the cursor at P + k + N, so that the field after it is     *)
(* read from there.                                                        *)
C6_EncapsulatedEndsAtItsLength ==
  Named(Name.packet_wrap) =>
    LET bytes == Payload(data)
        N == ReadVarint32(bytes, 0)
        wrap == ParseType(GetPacketInfo(257).v.fields[Name.a_inner]).ty
        end == N.pos + BitsToNat(N.v)
    IN (N.ok /\ IsSmall(N.v) /\ end < Len(bytes)) =>
         /\ DecodeValue(wrap, bytes, 0).pos = end
         /\ Name.b_next \in DOMAIN decoded.fields
              => decoded.fields[Name.b_next] = JInt(bytes[end + 1])

(* C7: of two packet definitions that share an id and differ in their      *)
(* bound, decode_packet uses the one whose bound is the direction.         *)
C7_BoundSelectsDefinition ==
  (decoded.kind = "DecodedPacket" /\ decoded.packet_id = Some(2)) =>
    decoded.packet_name =
      Some(IF direction = "Clientbound" THEN Name.packet_status_c ELSE Name.packet_status_s)

(* C8: the id is the varint of the first bytes when it ends within five    *)
(* bytes, and the fields are decoded from just after it; when the first    *)
(* five bytes all have the continuation bit, the id is the first byte and  *)
(* one byte is consumed.                                                   *)
C8_IdAndConsumed ==
  decoded.kind = "DecodedPacket" =>
    LET one == ReadVarint32(data, 0)
        id == IF one.ok THEN U32Value(one.v) ELSE data[1]
        consumed == IF one.ok THEN one.pos ELSE 1
        info == GetPacketInfo(id)
    IN (one.ok \/ Len(data) >= 5) =>
         /\ decoded.packet_id = Some(id)
         /\ info.some =>
              decoded.fields =
                LET r == DecodeFields(info.v.fields, SubSeq(data, consumed + 1, Len(data)), 0)
                IN IF r.ok THEN r.v ELSE EmptyMap

----------------------------------------------------------------------------
(* packet_logger.rs: the capture record and its bincode form               *)
(* (fixed-width little-endian integers; a u32 variant index for the        *)
(* direction; a u64 length before the bytes of a Vec<u8> or a String; one  *)
(* tag byte for an Option; the #[serde(skip)] fields are not written and   *)
(* are None when read).                                                    *)
DEFAULT_PROTOCOL_VERSION == <<49, 46, 50, 49, 46, 49, 49, 49>>    \* "1.21.111"

PacketEntry(timestamp, dir, bytes, protocol_version) ==
  [timestamp |-> timestamp, direction |-> dir, data |-> bytes,
   protocol_version |-> protocol_version, packet_json |-> None, packet_number |-> None]

(* n.to_le_bytes() in w bytes, for 0 <= n < 2^31 *)
LeBytes(n, w) ==
  [i \in 1..w |-> IF i = 1 THEN n % 256
                  ELSE IF i = 2 THEN (n \div 256) % 256
                  ELSE IF i = 3 THEN (n \div 65536) % 256
                  ELSE IF i = 4 THEN (n \div 16777216) % 256
                  ELSE 0]

VariantIndex(dir) == IF dir = "Clientbound" THEN 0 ELSE 1

(* bincode::serialize(&entry) *)
Serialize(entry) ==
  entry.timestamp
    \o LeBytes(VariantIndex(entry.direction), 4)
    \o LeBytes(Len(entry.data), 8) \o entry.data
    \o (IF entry.protocol_version.some
        THEN <<1>> \o LeBytes(Len(entry.protocol_version.v), 8)
                 \o AsBytes(entry.protocol_version.v)
        ELSE <<0>>)

(* (serialized.len() as u32).to_le_bytes(), then the serialized entry *)
WithLength(serialized) == LeBytes(Len(serialized), 4) \o serialized

(* the length written most significant byte first *)
BeBytes4(n) == <<LeBytes(n, 4)[4], LeBytes(n, 4)[3], LeBytes(n, 4)[2], LeBytes(n, 4)[1]>>
WithLengthBigEndian(serialized) == BeBytes4(Len(serialized)) \o serialized
FramedBigEndian(entry) == WithLengthBigEndian(Serialize(entry))

(* one record of the file: the length as u32, then the serialized entry *)
Framed(entry) == WithLength(Serialize(entry))

(* reading n bytes at pos of a slice or a cursor *)
Take(bytes, pos, n) ==
  IF pos + n <= Len(bytes)
  THEN [ok |-> TRUE, v |-> SubSeq(bytes, pos + 1, pos + n), pos |-> pos + n]
  ELSE [ok |-> FALSE]

(* a u64 length and that many bytes; a length that does not fit what is    *)
(* left is an UnexpectedEof (the reader of deserialize_from first makes a  *)
(* buffer of the length of a String, which the model takes to succeed)     *)
TakeLengthPrefixed(bytes, pos) ==
  LET len == Take(bytes, pos, 8)
  IN IF ~len.ok THEN len
     ELSE IF ~IsSmall(LeBits(len.v)) THEN [ok |-> FALSE]
     ELSE Take(bytes, len.pos, BitsToNat(LeBits(len.v)))

(* bincode::deserialize::<PacketEntry> of the bytes from pos on: the entry *)
(* and the position after it; bytes after the entry are left alone         *)
Deserialize(bytes, pos) ==
  LET timestamp == Take(bytes, pos, 8)
      variant == IF timestamp.ok THEN Take(bytes, timestamp.pos, 4) ELSE timestamp
      known == variant.ok /\ variant.v \in {LeBytes(0, 4), LeBytes(1, 4)}
      payload == IF known THEN TakeLengthPrefixed(bytes, variant.pos) ELSE [ok |-> FALSE]
      tag == IF payload.ok THEN Take(bytes, payload.pos, 1) ELSE payload
      entry(version, pos_after) ==
        [ok |-> TRUE, pos |-> pos_after,
         v |-> PacketEntry(timestamp.v,
                           IF variant.v = LeBytes(0, 4) THEN "Clientbound" ELSE "Serverbound",
                           payload.v, version)]
  IN IF ~tag.ok THEN [ok |-> FALSE]
     ELSE IF tag.v = <<0>> THEN entry(None, tag.pos)
     ELSE IF tag.v = <<1>>
          THEN LET text == TakeLengthPrefixed(bytes, tag.pos)
               IN IF text.ok /\ FromUtf8(text.v).some
                  THEN entry(Some(FromUtf8(text.v).v), text.pos)
                  ELSE [ok |-> FALSE]
     ELSE [ok |-> FALSE]

----------------------------------------------------------------------------
(* packet_dump.rs, viewer.rs: SessionLog::load on the bytes of a file *)
MaxEntryLen == 10000000

RECURSIVE ReadFramed(_, _, _), ReadLegacy(_, _, _)

(* the loop over [u32 length][entry] records, lines 48-109 *)
ReadFramed(bytes, position, packets) ==
  IF Len(bytes) - position < 4 THEN packets
  ELSE LET entry_len == LeBits(SubSeq(bytes, position + 1, position + 4))
           current_position == position + 4
           remaining == Len(bytes) - current_position
       IN IF \/ Mag(entry_len) = <<>>
             \/ ~IsSmall(entry_len)
             \/ BitsToNat(entry_len) > MaxEntryLen
             \/ BitsToNat(entry_len) > remaining
          THEN packets
          ELSE LET entry_data == SubSeq(bytes, current_position + 1,
                                        current_position + BitsToNat(entry_len))
                   entry == Deserialize(entry_data, 0)
               IN IF entry.ok
                  THEN ReadFramed(bytes, current_position + BitsToNat(entry_len),
                                  Append(packets, entry.v))
                  ELSE packets

(* the loop over entries without a length, lines 121-159 *)
ReadLegacy(bytes, pos_before, packets) ==
  IF pos_before >= Len(bytes) THEN packets
  ELSE LET entry == Deserialize(bytes, pos_before)
       IN IF ~entry.ok THEN packets
          ELSE IF entry.pos > pos_before
               THEN ReadLegacy(bytes, entry.pos, Append(packets, entry.v))
               ELSE packets

(* data.iter().take(16).map(|b| format!("{:02x}", b)).collect().join(" ") *)
Preview(bytes) ==
  Concat([i \in 1..Min(16, Len(bytes)) |->
            (IF i = 1 THEN <<>> ELSE <<32>>) \o Hex(<<bytes[i]>>)])

(* the same over the whole file *)
PreviewOfAll(bytes) ==
  Concat([i \in 1..Len(bytes) |-> (IF i = 1 THEN <<>> ELSE <<32>>) \o Hex(<<bytes[i]>>)])
NoPacketsFoundOfAll(bytes) ==
  [ok |-> FALSE, error |-> "No packets found in log file", size |-> Len(bytes),
   preview |-> PreviewOfAll(bytes)]

(* "No packets found in log file. File size: {} bytes. First 16 bytes     *)
(* (hex): {}"                                                              *)
NoPacketsFound(bytes) ==
  [ok |-> FALSE, error |-> "No packets found in log file", size |-> Len(bytes),
   preview |-> Preview(bytes)]

(* "Log file is too small ({} bytes) to contain any packets" *)
TooSmall(bytes) == [ok |-> FALSE, error |-> "Log file is too small", size |-> Len(bytes)]

(* a reader that tries the entries without a length on every file that    *)
(* is not empty                                                            *)
TriesLegacyOnAnyFile(framed, bytes) == Len(bytes) > 0

(* `if packets.is_empty() && data.len() > 0`, line 116: whether the loop   *)
(* over entries without a length is entered after the loop over the framed *)
(* records                                                                 *)
TriesLegacy(framed, bytes) == framed = <<>> /\ Len(bytes) > 0

Load(bytes) ==
  LET framed == ReadFramed(bytes, 0, <<>>)
      versions == SelectSeq(framed, LAMBDA e : e.protocol_version.some)
      packets == IF TriesLegacy(framed, bytes) THEN ReadLegacy(bytes, 0, <<>>) ELSE framed
  IN IF packets = <<>>
     THEN IF Len(bytes) < 4 THEN TooSmall(bytes) ELSE NoPacketsFound(bytes)
     ELSE [ok |-> TRUE, packets |-> packets,
           start_time |-> packets[1].timestamp,
           protocol_version |-> IF versions = <<>> THEN None ELSE versions[1].protocol_version]


(* viewer.rs: SessionLog::load. The loop over the framed records is the    *)
(* one of packet_dump.rs; the loop over entries without a length returns   *)
(* an error of its own when the first entry cannot be read (the text of    *)
(* the bincode error, which both messages end with, is left out).          *)
NewFormatFailed(bytes, first_four) ==
  [ok |-> FALSE, error |-> "File appears to be in new format (with length prefixes) but failed to read",
   first_length |-> first_four, size |-> Len(bytes)]
FailedToRead(bytes) ==
  [ok |-> FALSE, error |-> "Failed to read any packets", size |-> Len(bytes)]

LegacyFailure(bytes) ==
  LET first_four == IF Len(bytes) >= 4 THEN LeBits(SubSeq(bytes, 1, 4)) ELSE <<>>
  IN IF /\ Mag(first_four) # <<>>
        /\ IsSmall(first_four)
        /\ BitsToNat(first_four) <= Len(bytes)
        /\ BitsToNat(first_four) <= MaxEntryLen
     THEN NewFormatFailed(bytes, BitsToNat(first_four))
     ELSE FailedToRead(bytes)

ViewerLoad(bytes) ==
  LET framed == ReadFramed(bytes, 0, <<>>)
      versions == SelectSeq(framed, LAMBDA e : e.protocol_version.some)
      packets == IF TriesLegacy(framed, bytes) THEN ReadLegacy(bytes, 0, <<>>) ELSE framed
  IN IF TriesLegacy(framed, bytes) /\ packets = <<>> THEN LegacyFailure(bytes)
     ELSE IF packets = <<>>
     THEN IF Len(bytes) < 4 THEN TooSmall(bytes) ELSE NoPacketsFound(bytes)
     ELSE [ok |-> TRUE, packets |-> packets,
           start_time |-> packets[1].timestamp,
           protocol_version |-> IF versions = <<>> THEN None ELSE versions[1].protocol_version]

(* log_reader.rs: main. The two loops of the loaders with a limit on the   *)
(* number of packets (the limit of 1000 turns of each loop is beyond the   *)
(* files modelled); the packets are printed, or the failure is.            *)
RECURSIVE ReadFramedUpTo(_, _, _, _), ReadLegacyUpTo(_, _, _, _)

(* lines 90-155 *)
ReadFramedUpTo(bytes, position, packets, max_packets) ==
  IF Len(packets) >= max_packets THEN packets
  ELSE IF Len(bytes) - position < 4 THEN packets
  ELSE LET entry_len == LeBits(SubSeq(bytes, position + 1, position + 4))
           current_position == position + 4
           remaining == Len(bytes) - current_position
       IN IF \/ Mag(entry_len) = <<>>
             \/ ~IsSmall(entry_len)
             \/ BitsToNat(entry_len) > MaxEntryLen
             \/ BitsToNat(entry_len) > remaining
          THEN packets
          ELSE IF Deserialize(SubSeq(bytes, current_position + 1,
                                     current_position + BitsToNat(entry_len)), 0).ok
          THEN ReadFramedUpTo(bytes, current_position + BitsToNat(entry_len),
                 Append(packets,
                        Deserialize(SubSeq(bytes, current_position + 1,
                                           current_position + BitsToNat(entry_len)), 0).v),
                 max_packets)
          ELSE packets

(* lines 162-198 *)
ReadLegacyUpTo(bytes, pos_before, packets, max_packets) ==
  IF Len(packets) >= max_packets THEN packets
  ELSE IF pos_before >= Len(bytes) THEN packets
  ELSE IF ~Deserialize(bytes, pos_before).ok THEN packets
  ELSE ReadLegacyUpTo(bytes, Deserialize(bytes, pos_before).pos,
                      Append(packets, Deserialize(bytes, pos_before).v), max_packets)

(* "ERROR: Could not read any packets!", and the process exits with 1 *)
CouldNotRead(bytes) ==
  [ok |-> FALSE, error |-> "Could not read any packets", size |-> Len(bytes),
   max_packets |-> 0]

(* lines 157 and 200-218: the entries without a length are tried when the  *)
(* framed loop read nothing; no packet at all is the failure               *)
PacketsOrFailure(bytes, packets, max_packets) ==
  IF packets = <<>> THEN [CouldNotRead(bytes) EXCEPT !.max_packets = max_packets]
  ELSE [ok |-> TRUE, packets |-> packets, max_packets |-> max_packets]
AfterFramed(bytes, framed, max_packets) ==
  IF framed = <<>>
  THEN PacketsOrFailure(bytes, ReadLegacyUpTo(bytes, 0, <<>>, max_packets), max_packets)
  ELSE PacketsOrFailure(bytes, framed, max_packets)

(* lines 31-32 and 84-218, for a file that is not empty: what is printed,  *)
(* "Max packets to read: {}" and the packets                               *)
LogReaderMain(bytes, max_packets) ==
  AfterFramed(bytes, ReadFramedUpTo(bytes, 0, <<>>, max_packets), max_packets)
----------------------------------------------------------------------------
(* The clock: Utc::now().timestamp_millis() as the eight bytes of an i64.  *)
(* Epoch is 2023-10-05T13:21:21.941Z, 1696512081941 = 395 * 2^32 + 21.     *)
Epoch == <<21, 0, 0, 0, 139, 1, 0, 0>>

RECURSIVE AddLe(_, _)
AddLe(bytes, n) ==
  IF bytes = <<>> THEN <<>>
  ELSE <<(bytes[1] + n) % 256>> \o AddLe(Tail(bytes), (bytes[1] + n) \div 256)

TimestampMillis(clock) == AddLe(Epoch, clock)

(* a <= b for two i64 in little-endian bytes *)
I64Leq(a, b) ==
  LET key(x) == [i \in 1..8 |-> IF i = 1 THEN (x[8] + 128) % 256 ELSE x[9 - i]]
  IN a = b \/ LexLess(key(a), key(b))

----------------------------------------------------------------------------
(* One session: Session::log_clientbound / log_serverbound called by       *)
(* concurrent tasks, PacketLogger::log_packet under the mutex, and a       *)
(* reader of the session's file.                                           *)
MaxCalls == 2
MaxClock == 1
(* one task relays what the upstream sends and logs it clientbound, the     *)
(* other relays what the client sends and logs it serverbound            *)
Tasks == {"upstream", "client"}
Free == "free"
Payloads == {<<>>, <<0>>}

Idle == [pc |-> "idle"]

(* the number of bytes of the buffer that reach the file before a flush    *)
(* fails                                                                   *)
FailPoints == {2}

(* the clock as it was when the task made its call, before the mutex *)
TimestampAtCall(t) == TimestampMillis(tasks[t].at)

(* Utc::now().timestamp_millis() in log_packet, read by the task that      *)
(* holds the mutex                                                         *)
Timestamp(t) == TimestampMillis(now)

(* PacketLogger after new: File::create leaves an empty file *)
NewLogger == [file |-> <<>>, writer |-> <<>>]

(* a log_packet that returns Ok and writes nothing *)
LogPacketDiscarded(logger, dir, bytes, timestamp, flushed) ==
  [entry |-> PacketEntry(timestamp, dir, bytes, Some(DEFAULT_PROTOCOL_VERSION)),
   logger |-> logger, result |-> "Ok"]

(* log_packet: the entry, write_all of the length and of the entry into    *)
(* the BufWriter, flush. flushed is the number of buffered bytes the file  *)
(* takes: all of them, or fewer when a write fails, and then the rest      *)
(* stays in the BufWriter.                                                 *)
LogPacket(logger, dir, bytes, timestamp, flushed) ==
  LET entry == PacketEntry(timestamp, dir, bytes, Some(DEFAULT_PROTOCOL_VERSION))
      buffer == logger.writer \o Framed(entry)
  IN [entry |-> entry,
      logger |-> [file |-> logger.file \o SubSeq(buffer, 1, flushed),
                  writer |-> SubSeq(buffer, flushed + 1, Len(buffer))],
      result |-> IF flushed = Len(buffer) THEN "Ok" ELSE "Err"]

FlushOutcomes(logger, dir, bytes) ==
  LET all == Len(logger.writer)
             + Len(Framed(PacketEntry(Epoch, dir, bytes, Some(DEFAULT_PROTOCOL_VERSION))))
  IN {all} \cup {k \in FailPoints : k < all}

InFlight == Cardinality({t \in Tasks : tasks[t].pc # "idle"})

InitLogger ==
  /\ now = 0
  /\ file = <<>>
  /\ writer = <<>>
  /\ lock = Free
  /\ tasks = [t \in Tasks |-> Idle]
  /\ logged = <<>>
  /\ acquired = <<>>
  /\ loaded = NoResult
  /\ NoDecoder
  /\ NoProxy
  /\ NoViewer

Tick ==
  /\ now < MaxClock
  /\ now' = now + 1
  /\ UNCHANGED <<file, writer, lock, tasks, logged, acquired, loaded, decodeVars, proxyVars, viewerVars>>

StartCall(t, dir, bytes) ==
  /\ tasks[t].pc = "idle"
  /\ Len(logged) + InFlight < MaxCalls
  /\ tasks' = [tasks EXCEPT ![t] = [pc |-> "lock", direction |-> dir, data |-> bytes,
                                   at |-> now]]
  /\ UNCHANGED <<now, file, writer, lock, logged, acquired, loaded, decodeVars, proxyVars, viewerVars>>

(* Session::log_clientbound, up to self.logger.lock() *)
LogClientbound == \E bytes \in Payloads : StartCall("upstream", "Clientbound", bytes)

(* Session::log_serverbound, up to self.logger.lock() *)
LogServerbound == \E bytes \in Payloads : StartCall("client", "Serverbound", bytes)

(* self.logger.lock().await returns *)
Acquire(t) ==
  /\ tasks[t].pc = "lock"
  /\ lock = Free
  /\ lock' = t
  /\ tasks' = [tasks EXCEPT ![t].pc = "log"]
  /\ acquired' = Append(acquired, [task |-> t, direction |-> tasks[t].direction,
                                    data |-> tasks[t].data])
  /\ UNCHANGED <<now, file, writer, logged, loaded, decodeVars, proxyVars, viewerVars>>

(* logger.log_packet(direction, data) and the drop of the guard *)
DoLogPacket(t) ==
  /\ tasks[t].pc = "log"
  /\ lock = t
  /\ \E flushed \in FlushOutcomes([file |-> file, writer |-> writer],
                                  tasks[t].direction, tasks[t].data) :
       LET out == LogPacket([file |-> file, writer |-> writer],
                            tasks[t].direction, tasks[t].data, Timestamp(t), flushed)
       IN /\ file' = out.logger.file
          /\ writer' = out.logger.writer
          /\ logged' = Append(logged, [entry |-> out.entry, result |-> out.result])
          /\ tasks' = [tasks EXCEPT ![t] = Idle]
  /\ lock' = Free
  /\ loaded' = NoResult
  /\ UNCHANGED <<now, acquired, decodeVars, proxyVars, viewerVars>>

(* SessionLog::load of the session's file *)
LoadLog ==
  /\ loaded = NoResult
  /\ loaded' = Load(file)
  /\ UNCHANGED <<now, file, writer, lock, tasks, logged, acquired, decodeVars, proxyVars, viewerVars>>

NextLogger ==
  \/ Tick
  \/ LogClientbound
  \/ LogServerbound
  \/ \E t \in Tasks : Acquire(t)
  \/ \E t \in Tasks : DoLogPacket(t)
  \/ LoadLog

SpecLogger == InitLogger /\ [][NextLogger]_vars

----------------------------------------------------------------------------
(* A reader given a file of the legacy format: entries one after the       *)
(* other with no length before them, written in the order of their         *)
(* timestamps.                                                             *)
MaxRecords == 2

(* 2023-11-24T06:24:09.216Z, 1700807049216 = 396 * 2^32 *)
Later == <<0, 0, 0, 0, 140, 1, 0, 0>>

LegacyEntries ==
  {PacketEntry(timestamp, dir, bytes, version) :
     timestamp \in {Epoch, TimestampMillis(1), Later},
     dir \in Directions,
     bytes \in Payloads,
     version \in {None, Some(DEFAULT_PROTOCOL_VERSION)}}

LegacyLogs ==
  {entries \in UNION {[1..n -> LegacyEntries] : n \in 1..MaxRecords} :
     \A i \in 1..(Len(entries) - 1) : I64Leq(entries[i].timestamp, entries[i + 1].timestamp)}

Entries(log) == [i \in 1..Len(log) |-> log[i].entry]

InitRead ==
  /\ \E entries \in LegacyLogs :
       /\ logged = [i \in 1..Len(entries) |-> [entry |-> entries[i], result |-> "Ok"]]
       /\ file = Concat([i \in 1..Len(entries) |-> Serialize(entries[i])])
  /\ acquired = <<>>
  /\ now = 0
  /\ writer = <<>>
  /\ lock = Free
  /\ tasks = [t \in Tasks |-> Idle]
  /\ loaded = NoResult
  /\ NoDecoder
  /\ NoProxy
  /\ NoViewer

NextRead == LoadLog

SpecRead == InitRead /\ [][NextRead]_vars

----------------------------------------------------------------------------
(* Properties of the logger and of the readers. *)
AllOk == \A i \in 1..Len(logged) : logged[i].result = "Ok"

NonDecreasing(packets) ==
  \A i \in 1..(Len(packets) - 1) : I64Leq(packets[i].timestamp, packets[i + 1].timestamp)

C10_LegacyFileReadInFull ==
  loaded # NoResult =>
    /\ loaded.ok
    /\ loaded.packets = Entries(logged)


----------------------------------------------------------------------------
(* proxy.rs: ProxyServer::run, one datagram after the other on one socket. *)
MaxDatagrams == 3
Clients == {"client1", "client2"}
upstream_addr == "upstream"

(* Uuid::new_v4(): an id that no session made before has *)
NewV4 == Len(new_sessions) + 1

(* Session::new: the session of a client, with its id and its logger *)
NewSession(id, client_addr) ==
  [id |-> id, client_addr |-> client_addr, upstream_addr |-> upstream_addr,
   logger |-> NewLogger]

Handled == Len(sent) + Len(reported)

(* HashMap's RandomState: the order of the keys is fixed when the table is *)
(* made and has nothing to do with the order of the inserts                *)
HashOrders ==
  {order \in [1..Cardinality(Clients) -> Clients] :
     \A client_addr \in Clients : \E i \in DOMAIN order : order[i] = client_addr}

InitProxy ==
  /\ sessions = EmptyMap
  /\ sent = <<>>
  /\ reported = <<>>
  /\ received = <<>>
  /\ new_sessions = <<>>
  /\ hasher \in HashOrders
  /\ NoRun
  /\ now = 0
  /\ file = <<>>
  /\ writer = <<>>
  /\ lock = Free
  /\ tasks = [t \in Tasks |-> Idle]
  /\ logged = <<>>
  /\ acquired = <<>>
  /\ loaded = NoResult
  /\ NoDecoder
  /\ NoViewer

(* run has not returned: main would report its error, main.rs lines 29-31 *)
Running == \A i \in 1..Len(reported) : reported[i] # "Proxy server error"

(* a run that takes every sender for a client *)
IsClientWhoeverSends(from_addr) == TRUE

(* whether run takes the sender of a datagram for a client, lines 62-66 *)
IsClient(from_addr) == Has(sessions, from_addr) \/ from_addr # upstream_addr

(* sessions_read.iter().next(): the key the table's iterator gives first *)
IterNext(table) ==
  hasher[CHOOSE i \in DOMAIN hasher :
           /\ hasher[i] \in DOMAIN table
           /\ \A j \in 1..(i - 1) : hasher[j] \notin DOMAIN table]

(* a table that keeps nothing but the session inserted last *)
InsertAlone(table, client_addr, session) == [key \in {client_addr} |-> session]

(* sessions.insert(client_addr, new_session.clone()), line 137; for a      *)
(* session that is in the table already, its logger as the call left it    *)
Insert(table, client_addr, session) == Put(table, client_addr, session)

(* handle_client_packet: the session is found or made, the datagram is     *)
(* logged serverbound and sent to the upstream; an error of any of these   *)
(* ends the handler, and run reports it.                                   *)
HandleClientPacket(client_addr, bytes, created, id, flushed, send_ok) ==
  IF ~Has(sessions, client_addr) /\ ~created
  THEN [sessions |-> sessions, sent |-> sent, new_sessions |-> new_sessions,
        reported |-> Append(reported, "Failed to create session")]
  ELSE LET session == IF Has(sessions, client_addr) THEN sessions[client_addr]
                      ELSE NewSession(id, client_addr)
           lines == IF Has(sessions, client_addr) THEN new_sessions
                    ELSE Append(new_sessions, [id |-> id, client_addr |-> client_addr])
           out == LogPacket(session.logger, "Serverbound", bytes, TimestampMillis(now), flushed)
           table == Insert(sessions, client_addr, [session EXCEPT !.logger = out.logger])
       IN IF out.result = "Err"
          THEN [sessions |-> table, sent |-> sent, new_sessions |-> lines,
                reported |-> Append(reported, "Failed to log packet")]
          ELSE IF send_ok
          THEN [sessions |-> table, reported |-> reported, new_sessions |-> lines,
                sent |-> Append(sent, [to |-> upstream_addr, data |-> bytes])]
          ELSE [sessions |-> table, sent |-> sent, new_sessions |-> lines,
                reported |-> Append(reported, "Failed to forward packet to upstream")]

(* what can happen in handle_client_packet: Session::new is called for a   *)
(* new address only, log_serverbound when there is a session, send_to when *)
(* the record was written                                                  *)
CreateOutcomes(client_addr) == IF Has(sessions, client_addr) THEN {TRUE} ELSE BOOLEAN
LoggerOf(client_addr) ==
  IF Has(sessions, client_addr) THEN sessions[client_addr].logger ELSE NewLogger
LogOutcomes(client_addr, bytes, created) ==
  IF created THEN FlushOutcomes(LoggerOf(client_addr), "Serverbound", bytes) ELSE {0}
SendOutcomes(client_addr, bytes, created, flushed) ==
  IF created /\ LogPacket(LoggerOf(client_addr), "Serverbound", bytes,
                          TimestampMillis(now), flushed).result = "Ok"
  THEN BOOLEAN ELSE {TRUE}

(* a datagram arrives that run takes for a client's *)
ClientDatagram ==
  /\ Running
  /\ Handled < MaxDatagrams
  /\ \E from_addr \in Clients \cup {upstream_addr}, bytes \in Payloads :
       /\ IsClient(from_addr)
       /\ received' = Append(received, [from_addr |-> from_addr, data |-> bytes])
       /\ \E created \in CreateOutcomes(from_addr) :
            \E flushed \in LogOutcomes(from_addr, bytes, created) :
              \E send_ok \in SendOutcomes(from_addr, bytes, created, flushed) :
                LET out == HandleClientPacket(from_addr, bytes, created, NewV4, flushed, send_ok)
                IN /\ sessions' = out.sessions
                   /\ sent' = out.sent
                   /\ reported' = out.reported
                   /\ new_sessions' = out.new_sessions
  /\ UNCHANGED <<hasher, runVars, decodeVars, loggerVars, viewerVars>>

(* a datagram from the upstream arrives: it goes to the session that the   *)
(* table's iterator gives first, logged clientbound and sent to the client *)
UpstreamDatagram ==
  /\ Running
  /\ Handled < MaxDatagrams
  /\ ~IsClient(upstream_addr)
  /\ \E bytes \in Payloads, send_ok \in BOOLEAN :
       /\ received' = Append(received, [from_addr |-> upstream_addr, data |-> bytes])
       /\ IF DOMAIN sessions = {}
          THEN /\ reported' = Append(reported, "no active sessions to forward to")
               /\ UNCHANGED <<sessions, sent>>
          ELSE \E flushed \in FlushOutcomes(sessions[IterNext(sessions)].logger,
                                            "Clientbound", bytes) :
                 LET client_addr == IterNext(sessions)
                     session == sessions[client_addr]
                     out == LogPacket(session.logger, "Clientbound", bytes,
                                      TimestampMillis(now), flushed)
                     logs == IF out.result = "Err"
                             THEN Append(reported, "Failed to log clientbound packet")
                             ELSE reported
                 IN /\ sessions' = [sessions EXCEPT ![client_addr].logger = out.logger]
                    /\ sent' = IF send_ok
                               THEN Append(sent, [to |-> client_addr, data |-> bytes])
                               ELSE sent
                    /\ reported' = IF send_ok THEN logs
                                   ELSE Append(logs, "Failed to forward packet to client")
  /\ UNCHANGED <<new_sessions, hasher, runVars, decodeVars, loggerVars, viewerVars>>

(* a run that gives the error of recv_from back to main *)
RecvErrorReturns ==
  /\ Running
  /\ Handled < MaxDatagrams
  /\ reported' = Append(reported, "Proxy server error")
  /\ UNCHANGED <<sessions, sent, received, new_sessions, hasher, runVars,
                 decodeVars, loggerVars, viewerVars>>

(* socket.recv_from fails *)
RecvError ==
  /\ Running
  /\ Handled < MaxDatagrams
  /\ reported' = Append(reported, "Error receiving packet")
  /\ UNCHANGED <<sessions, sent, received, new_sessions, hasher, runVars,
                 decodeVars, loggerVars, viewerVars>>

NextProxy ==
  \/ ClientDatagram
  \/ UpstreamDatagram
  \/ RecvError

SpecProxy == InitProxy /\ [][NextProxy]_vars

(* C2: when the capture record of a datagram cannot be written, the        *)
(* failure is reported and the datagram is still forwarded, serverbound    *)
(* datagrams as well as clientbound ones: a handler that reports the       *)
(* failed log call also sends the datagram.                                *)
C2_ForwardedDespiteLogFailure ==
  [][\A message \in {"Failed to log packet", "Failed to log clientbound packet"} :
       (Len(reported') > Len(reported) /\ reported'[Len(reported) + 1] = message)
         => \/ Len(sent') = Len(sent) + 1
            \/ reported'[Len(reported')] \in {"Failed to forward packet to upstream",
                                              "Failed to forward packet to client"}]_vars


(* what a session's logger was given: the file and the BufWriter after it *)
Recorded(logger) == logger.file \o logger.writer

(* this step has taken a datagram from the socket *)
Receives == Len(received') = Len(received) + 1
Datagram == received'[Len(received')]

(* this step has given the datagram to the logger of the session of addr,  *)
(* as one record of the given direction                                    *)
LoggedIn(addr, dir) ==
  /\ Has(sessions', addr)
  /\ Recorded(sessions'[addr].logger)
       = Recorded(LoggerOf(addr))
           \o Framed(PacketEntry(TimestampMillis(now), dir, Datagram.data,
                                 Some(DEFAULT_PROTOCOL_VERSION)))

(* this step has called send_to with the datagram for addr: it is sent, or *)
(* the failure of the socket is the last thing reported                    *)
SentTo(addr, failure) ==
  \/ /\ sent' = Append(sent, [to |-> addr, data |-> Datagram.data])
  \/ /\ sent' = sent
     /\ Len(reported') > Len(reported)
     /\ reported'[Len(reported')] = failure

(* C17: a datagram is clientbound exactly when it comes from upstream_addr *)
(* and that address is no key of the session table; every other datagram   *)
(* is serverbound: it is logged in the session keyed by its source address *)
(* (made if absent) and forwarded to upstream_addr.                        *)
C17_ClassifiedBySourceAndForwarded ==
  [][Receives =>
       IF Datagram.from_addr = upstream_addr /\ ~Has(sessions, upstream_addr)
       THEN /\ DOMAIN sessions' = DOMAIN sessions
            /\ \A addr \in DOMAIN sessions : ~LoggedIn(addr, "Serverbound")
            /\ Len(sent') > Len(sent) => sent'[Len(sent')].to # upstream_addr
       ELSE /\ LoggedIn(Datagram.from_addr, "Serverbound")
            /\ SentTo(upstream_addr, "Failed to forward packet to upstream")]_vars

(* C18: while exactly one session exists, a datagram from the upstream is  *)
(* logged as Clientbound in that session and sent to the session's client  *)
(* address; while no session exists, it is neither logged nor forwarded.   *)
C18_UpstreamToTheOnlySession ==
  [][(Receives /\ Datagram.from_addr = upstream_addr) =>
       /\ \A client_addr \in Clients :
            DOMAIN sessions = {client_addr} =>
              /\ DOMAIN sessions' = {client_addr}
              /\ LoggedIn(client_addr, "Clientbound")
              /\ SentTo(sessions[client_addr].client_addr, "Failed to forward packet to client")
       /\ DOMAIN sessions = {} => (sessions' = sessions /\ sent' = sent)]_vars

(* an upstream datagram found no session and was dropped; after a client   *)
(* had made the only session, the next one was logged there and sent on    *)
C18_Witness ==
  /\ Len(received) = 3
  /\ received[1].from_addr = upstream_addr
  /\ received[2].from_addr = "client1"
  /\ received[3] = [from_addr |-> upstream_addr, data |-> <<0>>]
  /\ reported = <<"no active sessions to forward to">>
  /\ DOMAIN sessions = {"client1"}
  /\ sent[2] = [to |-> "client1", data |-> <<0>>]
  /\ Len(Recorded(sessions["client1"].logger)) > Len(Framed(PacketEntry(Epoch, "Clientbound", <<0>>, Some(DEFAULT_PROTOCOL_VERSION))))

(* C19: when several sessions exist, an upstream datagram goes to the      *)
(* session that was inserted first into the table, whatever was inserted   *)
(* later, and a warning about the ambiguity is logged.                     *)
C19_FirstInsertedSessionAndWarning ==
  [][(Receives /\ Datagram.from_addr = upstream_addr /\ Cardinality(DOMAIN sessions) > 1) =>
       /\ LoggedIn(new_sessions[1].client_addr, "Clientbound")
       /\ \/ sent' = Append(sent, [to |-> new_sessions[1].client_addr, data |-> Datagram.data])
          \/ sent' = sent
       /\ Len(reported') > Len(reported)
       /\ reported'[Len(reported) + 1] \notin {"Failed to log clientbound packet",
                                              "Failed to forward packet to client"}]_vars

(* C20: the table holds one session per client address: a session is made  *)
(* by a datagram from an address that has none, and only then; a session   *)
(* that is in the table stays there under its address with its id.         *)
C20_OneSessionPerClientForGood ==
  [][/\ \A addr \in DOMAIN sessions :
          /\ Has(sessions', addr)
          /\ sessions'[addr].id = sessions[addr].id
          /\ sessions'[addr].client_addr = addr
     /\ \A addr \in DOMAIN sessions' \ DOMAIN sessions :
          /\ Receives
          /\ Datagram.from_addr = addr
          /\ sessions'[addr].client_addr = addr
          /\ new_sessions' = Append(new_sessions, [id |-> sessions'[addr].id, client_addr |-> addr])
     /\ (Receives /\ Datagram.from_addr \in Clients) =>
          \/ Has(sessions', Datagram.from_addr)
          \/ reported' = Append(reported, "Failed to create session")
     /\ DOMAIN sessions' = DOMAIN sessions => new_sessions' = new_sessions]_vars

(* two clients have a session each, and the second datagram of the first   *)
(* client went into the session its first datagram had made                *)
C20_Witness ==
  /\ Len(received) = 3
  /\ received[1].from_addr = "client1"
  /\ received[2].from_addr = "client2"
  /\ received[3].from_addr = "client1"
  /\ new_sessions = <<[id |-> 1, client_addr |-> "client1"], [id |-> 2, client_addr |-> "client2"]>>
  /\ sessions["client1"].id = 1
  /\ sessions["client2"].id = 2
  /\ Len(sent) = 3
  /\ Len(Recorded(sessions["client1"].logger)) > Len(Recorded(sessions["client2"].logger))

(* the errors of the socket that run and handle_client_packet report *)
NetworkErrors ==
  {"Error receiving packet", "Failed to forward packet to upstream",
   "Failed to forward packet to client"}
NetworkErrorReported == \E i \in 1..Len(reported) : reported[i] \in NetworkErrors

(* C22: an error of recv_from or send_to is reported and the loop goes on: *)
(* run does not return, and a datagram that comes after such an error and  *)
(* meets no failure of its own is relayed, from a client to the upstream   *)
(* and from the upstream to a client with a session.                       *)
C22_LoopGoesOnAfterNetworkError ==
  /\ [](Running)
  /\ [][(Receives /\ NetworkErrorReported /\ reported' = reported) =>
          /\ sent' = Append(sent, [to |-> sent'[Len(sent')].to, data |-> Datagram.data])
          /\ IF Datagram.from_addr = upstream_addr
             THEN Has(sessions, sent'[Len(sent')].to)
             ELSE sent'[Len(sent')].to = upstream_addr]_vars

(* recv_from failed, and then a datagram of a client went to the upstream  *)
(* and a datagram of the upstream to that client                           *)
C22_Witness ==
  /\ reported = <<"Error receiving packet">>
  /\ Len(received) = 2
  /\ received[1].from_addr = "client2"
  /\ received[2].from_addr = upstream_addr
  /\ sent = <<[to |-> upstream_addr, data |-> received[1].data],
              [to |-> "client2", data |-> received[2].data]>>

(* C34: the upstream address is never a key of the session table, and a    *)
(* datagram that comes from the upstream makes no session, is logged       *)
(* serverbound in no session and is not sent to the upstream.              *)
C34_UpstreamIsNoSession ==
  /\ [](~Has(sessions, upstream_addr))
  /\ [][(Receives /\ Datagram.from_addr = upstream_addr) =>
          /\ DOMAIN sessions' = DOMAIN sessions
          /\ new_sessions' = new_sessions
          /\ \A addr \in DOMAIN sessions' : ~LoggedIn(addr, "Serverbound")
          /\ Len(sent') > Len(sent) => sent'[Len(sent')].to # upstream_addr]_vars

(* a client has a session, and the datagram that then came from the        *)
(* upstream went to that client and made no session of its own             *)
C34_Witness ==
  /\ Len(received) = 2
  /\ received[1] = [from_addr |-> "client2", data |-> <<0>>]
  /\ received[2] = [from_addr |-> upstream_addr, data |-> <<>>]
  /\ DOMAIN sessions = {"client2"}
  /\ reported = <<>>
  /\ sent = <<[to |-> upstream_addr, data |-> <<0>>], [to |-> "client2", data |-> <<>>]>>

----------------------------------------------------------------------------
(* lazypacket.rs: the viewer's diff of two packets, compare_json and       *)
(* format_json_diff.                                                       *)

Max(a, b) == IF a > b THEN a ELSE b

(* format!("{}", n) of an integer *)
RECURSIVE NatToString(_)
NatToString(n) ==
  IF n < 10 THEN <<Str.digits[n + 1]>>
  ELSE NatToString(n \div 10) \o <<Str.digits[(n % 10) + 1]>>
IntToString(n) == IF n < 0 THEN <<45>> \o NatToString(0 - n) ELSE NatToString(n)

(* the literals of format_json_diff and of the JSON text *)
Txt ==
  [ plus |-> <<43, 32>>,   \* "+ "
    minus |-> <<45, 32>>,   \* "- "
    colon |-> <<58, 32>>,   \* ": "
    two |-> <<32, 32>>,   \* "  "
    dot |-> <<46>>,   \* "."
    open |-> <<91>>,   \* "["
    close |-> <<93>>,   \* "]"
    brace |-> <<123>>,   \* "{"
    unbrace |-> <<125>>,   \* "}"
    comma |-> <<44>>,   \* ","
    quote |-> <<34>>,   \* the double quote
    null |-> <<110, 117, 108, 108>>,   \* "null"
    true |-> <<116, 114, 117, 101>>,   \* "true"
    false |-> <<102, 97, 108, 115, 101>> ]   \* "false"

(* a JSON string literal: the quotes, with the quote and the backslash     *)
(* escaped                                                                 *)
JsonString(s) ==
  Txt.quote
    \o Concat([i \in 1..Len(s) |-> IF s[i] \in {34, 92} THEN <<92, s[i]>> ELSE <<s[i]>>])
    \o Txt.quote

(* the lines of one element or member inside its parent: two more spaces,  *)
(* and a comma after all but the last one                                  *)
Indented(lines, last) ==
  [i \in 1..Len(lines) |->
     Txt.two \o lines[i] \o (IF i = Len(lines) /\ ~last THEN Txt.comma ELSE <<>>)]

(* "key": in front of the first line of a member's value *)
WithKey(key, lines) ==
  <<JsonString(key) \o Txt.colon \o lines[1]>> \o Tail(lines)

RECURSIVE PrettyLines(_)
PrettyMembers(m, keys) ==
  Concat([i \in 1..Len(keys) |->
            Indented(WithKey(keys[i], PrettyLines(m[keys[i]])), i = Len(keys))])

(* serde_json::to_string_pretty(value), then str::lines: the values of the *)
(* model are null, booleans, integers, strings, arrays and objects (keys   *)
(* ascending)                                                              *)
PrettyLines(value) ==
  CASE value.t = "null" -> <<Txt.null>>
    [] value.t = "bool" -> <<IF value.b THEN Txt.true ELSE Txt.false>>
    [] value.t = "num" -> <<IntToString(value.n)>>
    [] value.t = "str" -> <<JsonString(value.s)>>
    [] value.t = "array" ->
         IF value.a = <<>> THEN <<Txt.open \o Txt.close>>
         ELSE <<Txt.open>>
                \o Concat([i \in 1..Len(value.a) |->
                             Indented(PrettyLines(value.a[i]), i = Len(value.a))])
                \o <<Txt.close>>
    [] value.t = "object" ->
         IF DOMAIN value.m = {} THEN <<Txt.brace \o Txt.unbrace>>
         ELSE <<Txt.brace>> \o PrettyMembers(value.m, SortedKeys(DOMAIN value.m))
                \o <<Txt.unbrace>>

(* enum JsonDiff *)
Added(value) == [d |-> "Added", v |-> value]
Removed(value) == [d |-> "Removed", v |-> value]
Modified(old, new) == [d |-> "Modified", old |-> old, new |-> new]
Unchanged(value) == [d |-> "Unchanged", v |-> value]
ObjectDiff(map) == [d |-> "ObjectDiff", m |-> map]
ArrayDiff(arr) == [d |-> "ArrayDiff", a |-> arr]

RECURSIVE CompareJson(_, _), DiffVec(_, _, _, _)

(* a key on one side only taken for an added one, whichever side has it *)
CompareKeyAdded(baseline_obj, current_obj, key) ==
  IF key \in DOMAIN baseline_obj /\ key \in DOMAIN current_obj
  THEN CompareJson(baseline_obj[key], current_obj[key])
  ELSE IF key \in DOMAIN baseline_obj THEN Added(baseline_obj[key])
  ELSE Added(current_obj[key])

(* match (baseline_obj.get(key), current_obj.get(key)) of a key kept *)
CompareKey(baseline_obj, current_obj, key) ==
  IF key \in DOMAIN baseline_obj /\ key \in DOMAIN current_obj
  THEN CompareJson(baseline_obj[key], current_obj[key])
  ELSE IF key \in DOMAIN baseline_obj THEN Removed(baseline_obj[key])
  ELSE Added(current_obj[key])

(* diff_map after the loop over all_keys: the keys whose values are not    *)
(* identical on the two sides                                              *)
DiffMap(baseline_obj, current_obj) ==
  [key \in {k \in DOMAIN baseline_obj \cup DOMAIN current_obj :
              ~(/\ k \in DOMAIN baseline_obj
                /\ k \in DOMAIN current_obj
                /\ baseline_obj[k] = current_obj[k])}
     |-> CompareKey(baseline_obj, current_obj, key)]

ObjectDiffOf(diff_map) ==
  IF DOMAIN diff_map = {} THEN Unchanged(JObject(EmptyMap)) ELSE ObjectDiff(diff_map)

(* for i in 0..max_len, i counted from 1 here: identical elements are      *)
(* skipped, the others are pushed                                          *)
DiffVec(baseline_arr, current_arr, i, diff_vec) ==
  IF i > Max(Len(baseline_arr), Len(current_arr)) THEN diff_vec
  ELSE IF i <= Len(baseline_arr) /\ i <= Len(current_arr)
  THEN IF baseline_arr[i] = current_arr[i]
       THEN DiffVec(baseline_arr, current_arr, i + 1, diff_vec)
       ELSE DiffVec(baseline_arr, current_arr, i + 1,
                    Append(diff_vec, CompareJson(baseline_arr[i], current_arr[i])))
  ELSE IF i <= Len(baseline_arr)
  THEN DiffVec(baseline_arr, current_arr, i + 1, Append(diff_vec, Removed(baseline_arr[i])))
  ELSE DiffVec(baseline_arr, current_arr, i + 1, Append(diff_vec, Added(current_arr[i])))

(* an ArrayDiff made also of a diff_vec that is empty *)
ArrayDiffOfAny(diff_vec) == ArrayDiff(diff_vec)

(* lines 464-468 *)
ArrayDiffOf(diff_vec) ==
  IF diff_vec = <<>> THEN Unchanged(JArray(<<>>)) ELSE ArrayDiff(diff_vec)

(* primitive values taken for modified without comparing them *)
CompareJsonUncompared(base, cur) ==
  CASE base.t = "object" /\ cur.t = "object" -> ObjectDiffOf(DiffMap(base.m, cur.m))
    [] base.t = "array" /\ cur.t = "array" -> ArrayDiffOf(DiffVec(base.a, cur.a, 1, <<>>))
    [] OTHER -> Modified(base, cur)

(* compare_json *)
CompareJson(base, cur) ==
  CASE base.t = "object" /\ cur.t = "object" -> ObjectDiffOf(DiffMap(base.m, cur.m))
    [] base.t = "array" /\ cur.t = "array" -> ArrayDiffOf(DiffVec(base.a, cur.a, 1, <<>>))
    [] OTHER -> IF base = cur THEN Unchanged(base) ELSE Modified(base, cur)

(* "  ".repeat(indent) *)
RECURSIVE Repeat(_, _)
Repeat(s, n) == IF n = 0 THEN <<>> ELSE s \o Repeat(s, n - 1)

(* the lines of one value under a sign ("+ " or "- "): the path on the     *)
(* first line, two more spaces on the others                               *)
SignedLines(lines, sign, path, indent, color) ==
  [i \in 1..Len(lines) |->
     [text |-> (IF i = 1
                THEN IF path = <<>> THEN Repeat(Txt.two, indent) \o sign
                     ELSE Repeat(Txt.two, indent) \o sign \o path \o Txt.colon
                ELSE Repeat(Txt.two, indent) \o Txt.two \o sign)
               \o lines[i],
      color |-> color]]

RECURSIVE FormatJsonDiff(_, _, _)

(* for (key, value_diff) in map, the keys of the BTreeMap ascending *)
FormatMembers(map, keys, path, indent) ==
  Concat([i \in 1..Len(keys) |->
            FormatJsonDiff(map[keys[i]],
                           IF path = <<>> THEN keys[i] ELSE path \o Txt.dot \o keys[i],
                           indent)])

(* format_json_diff *)
FormatJsonDiff(d, path, indent) ==
  CASE d.d = "Added" -> SignedLines(PrettyLines(d.v), Txt.plus, path, indent, "Green")
    [] d.d = "Removed" -> SignedLines(PrettyLines(d.v), Txt.minus, path, indent, "Red")
    [] d.d = "Modified" ->
         SignedLines(PrettyLines(d.old), Txt.minus, path, indent, "Red")
           \o SignedLines(PrettyLines(d.new), Txt.plus, path, indent, "Green")
    [] d.d = "ObjectDiff" -> FormatMembers(d.m, SortedKeys(DOMAIN d.m), path, indent)
    [] d.d = "ArrayDiff" ->
         Concat([i \in 1..Len(d.a) |->
                   FormatJsonDiff(d.a[i],
                                  path \o Txt.open \o IntToString(i - 1) \o Txt.close,
                                  indent)])
    [] d.d = "Unchanged" -> <<>>

----------------------------------------------------------------------------
(* The value trees the viewer compares: integers, arrays of them, small    *)
(* objects, and objects of all of these.                                   *)
MaxArrayLen == 2
Key == [a |-> <<97>>, b |-> <<98>>]
Leaves == {JInt(1), JInt(2)}
ArraysOf(S) == {JArray(s) : s \in UNION {[1..n -> S] : n \in 0..MaxArrayLen}}
ObjectsOf(keys, S) == {JObject(m) : m \in UNION {[ks -> S] : ks \in SUBSET keys}}
Members == Leaves \cup ArraysOf(Leaves) \cup ObjectsOf({Key.a}, Leaves)
Trees == Members \cup ObjectsOf({Key.a, Key.b}, Members)

InitDiff ==
  /\ baseline \in Trees
  /\ current \in Trees
  /\ diff = NoResult
  /\ diff_lines = <<>>
  /\ NoFilter
  /\ NoQuery
  /\ NoInspector
  /\ NoDecoder
  /\ NoLogger
  /\ NoProxy

(* the diff panel of a packet that is not the baseline, lines 1396-1397 *)
RenderDiff ==
  /\ diff = NoResult
  /\ diff' = CompareJson(baseline, current)
  /\ diff_lines' = FormatJsonDiff(CompareJson(baseline, current), <<>>, 0)
  /\ UNCHANGED <<baseline, current, filter_input, filter, filter_text, db_packets, query,
                 rows, app, decodeVars, loggerVars, proxyVars>>

NextDiff == RenderDiff

SpecDiff == InitDiff /\ [][NextDiff]_vars

(* whether a diff holds an Added, Removed or Modified node at any depth *)
RECURSIVE HasChange(_)
HasChange(d) ==
  CASE d.d \in {"Added", "Removed", "Modified"} -> TRUE
    [] d.d = "ObjectDiff" -> \E k \in DOMAIN d.m : HasChange(d.m[k])
    [] d.d = "ArrayDiff" -> \E i \in 1..Len(d.a) : HasChange(d.a[i])
    [] OTHER -> FALSE

(* C11: for every value tree a, diff(a, a) holds no Added, Removed or      *)
(* Modified node at any depth.                                             *)
C11_SelfDiffHasNoChange ==
  (diff # NoResult /\ baseline = current) => ~HasChange(diff)

(* a tree with members of its own has been compared with itself *)
C11_Witness ==
  /\ diff # NoResult
  /\ baseline = current
  /\ baseline.t = "object"
  /\ \E k \in DOMAIN baseline.m : baseline.m[k].t = "array" /\ baseline.m[k].a # <<>>

(* a diff with Added and Removed exchanged and the sides of Modified       *)
(* swapped, under the same keys and at the same positions                  *)
RECURSIVE Swapped(_)
Swapped(d) ==
  CASE d.d = "Added" -> Removed(d.v)
    [] d.d = "Removed" -> Added(d.v)
    [] d.d = "Modified" -> Modified(d.new, d.old)
    [] d.d = "ObjectDiff" -> ObjectDiff([k \in DOMAIN d.m |-> Swapped(d.m[k])])
    [] d.d = "ArrayDiff" -> ArrayDiff([i \in 1..Len(d.a) |-> Swapped(d.a[i])])
    [] OTHER -> d

(* C12: for all value trees a and b, diff(b, a) is diff(a, b) with Added   *)
(* and Removed exchanged and the sides of every Modified swapped, under    *)
(* the same keys and at the same positions.                                *)
C12_DiffOfSwappedArguments ==
  diff # NoResult => CompareJson(current, baseline) = Swapped(diff)

(* two different objects were compared: a key added, an array changed *)
C12_Witness ==
  /\ diff # NoResult
  /\ diff.d = "ObjectDiff"
  /\ \E k \in DOMAIN diff.m : diff.m[k].d = "Added"
  /\ \E k \in DOMAIN diff.m : diff.m[k].d = "ArrayDiff"

(* the text of the lines rendered *)
LineTexts == {diff_lines[i].text : i \in 1..Len(diff_lines)}

(* C13: the rendered lines name a changed array element by its index in    *)
(* the compared arrays, under the dotted path of its field: when the       *)
(* arrays under a key k differ at the position i (counted from 0), the     *)
(* lines "- k[i]: old" and "+ k[i]: new" are rendered.                     *)
C13_LinesNameElementIndex ==
  (diff # NoResult /\ baseline.t = "object" /\ current.t = "object") =>
    \A k \in DOMAIN baseline.m \cap DOMAIN current.m :
      (baseline.m[k].t = "array" /\ current.m[k].t = "array") =>
        \A i \in 1..Min(Len(baseline.m[k].a), Len(current.m[k].a)) :
          baseline.m[k].a[i] # current.m[k].a[i] =>
            /\ (Txt.minus \o k \o Txt.open \o IntToString(i - 1) \o Txt.close \o Txt.colon
                  \o PrettyLines(baseline.m[k].a[i])[1]) \in LineTexts
            /\ (Txt.plus \o k \o Txt.open \o IntToString(i - 1) \o Txt.close \o Txt.colon
                  \o PrettyLines(current.m[k].a[i])[1]) \in LineTexts

(* whether no ObjectDiff and no ArrayDiff of a diff, at any depth, is      *)
(* empty or has an Unchanged entry                                         *)
RECURSIVE OnlyChanges(_)
OnlyChanges(d) ==
  CASE d.d = "ObjectDiff" ->
         /\ DOMAIN d.m # {}
         /\ \A k \in DOMAIN d.m : d.m[k].d # "Unchanged" /\ OnlyChanges(d.m[k])
    [] d.d = "ArrayDiff" ->
         /\ d.a # <<>>
         /\ \A i \in 1..Len(d.a) : d.a[i].d # "Unchanged" /\ OnlyChanges(d.a[i])
    [] OTHER -> TRUE

(* C36: for all value trees a and b, format_json_diff(compare_json(a, b))  *)
(* has no line exactly when a and b are equal, and no ObjectDiff or        *)
(* ArrayDiff of compare_json(a, b) is empty or has an Unchanged entry.     *)
C36_NoLinesIffEqual ==
  diff # NoResult =>
    /\ (diff_lines = <<>>) <=> (baseline = current)
    /\ OnlyChanges(diff)

(* two objects that differ inside a member that is an array, and two that  *)
(* are equal: a diff of diffs with lines, and no line at all               *)
C36_Witness ==
  /\ diff # NoResult
  /\ baseline.t = "object"
  /\ current.t = "object"
  /\ baseline # current
  /\ diff.d = "ObjectDiff"
  /\ \E k \in DOMAIN diff.m : diff.m[k].d = "ArrayDiff"
  /\ Len(diff_lines) > 2

----------------------------------------------------------------------------
(* lazypacket.rs: the viewer's packet filter, parse_filter and             *)
(* PacketFilterSet::to_string.                                             *)

(* char::is_whitespace, the code points below U+00FF *)
IsWhitespace(c) == c \in {9, 10, 11, 12, 13, 32, 133, 160}

(* str::trim *)
RECURSIVE TrimStart(_)
TrimStart(s) == IF s # <<>> /\ IsWhitespace(Head(s)) THEN TrimStart(Tail(s)) ELSE s
RECURSIVE TrimEnd(_)
TrimEnd(s) ==
  IF s # <<>> /\ IsWhitespace(s[Len(s)]) THEN TrimEnd(SubSeq(s, 1, Len(s) - 1)) ELSE s
Trim(s) == TrimEnd(TrimStart(s))

(* str::split(','): the parts between the commas, empty ones included *)
RECURSIVE Split(_, _)
Split(s, sep) ==
  IF Find(s, <<sep>>) = 0 THEN <<s>>
  ELSE <<SubSeq(s, 1, Find(s, <<sep>>) - 1)>>
         \o Split(SubSeq(s, Find(s, <<sep>>) + 1, Len(s)), sep)

(* input.split(',').map(|s| s.trim()).filter(|s| !s.is_empty()).collect() *)
FilterStrings(input) ==
  SelectSeq([i \in 1..Len(Split(input, 44)) |-> Trim(Split(input, 44)[i])],
            LAMBDA s : s # <<>>)

(* struct PacketFilter *)
PacketFilter(dir, packet_name, packet_name_is_wildcard) ==
  [direction |-> dir, packet_name |-> packet_name,
   packet_name_is_wildcard |-> packet_name_is_wildcard]

(* a match whose last arm takes any other token for all directions *)
DirectionOfAnyToken(direction_char) ==
  CASE ToLowercase(direction_char) = <<99>> -> Some(Some("Clientbound"))
    [] ToLowercase(direction_char) = <<115>> -> Some(Some("Serverbound"))
    [] OTHER -> Some(None)

(* the match on direction_char.to_lowercase(): Some(direction), or None    *)
(* for a token that is skipped                                             *)
DirectionOf(direction_char) ==
  CASE ToLowercase(direction_char) = <<99>> -> Some(Some("Clientbound"))
    [] ToLowercase(direction_char) = <<115>> -> Some(Some("Serverbound"))
    [] ToLowercase(direction_char) \in {<<97>>, <<>>} -> Some(None)
    [] OTHER -> None

(* a name that only starts with the wildcard character *)
StartsWithStar(name) == name # <<>> /\ name[1] = 42

(* name.contains('*') *)
ContainsStar(name) == \E i \in 1..Len(name) : name[i] = 42

(* one filter string: (direction_char, packet_name) around the first '.',  *)
(* then the filter, or None when the direction is not one of c, s, a       *)
ParsePart(filter_str, dot_pos) ==
  IF dot_pos # 0
  THEN IF DirectionOf(SubSeq(filter_str, 1, dot_pos - 1)).some
       THEN Some(PacketFilter(DirectionOf(SubSeq(filter_str, 1, dot_pos - 1)).v,
                              Some(SubSeq(filter_str, dot_pos + 1, Len(filter_str))),
                              ContainsStar(SubSeq(filter_str, dot_pos + 1, Len(filter_str)))))
       ELSE None
  ELSE IF DirectionOf(filter_str).some
       THEN Some(PacketFilter(DirectionOf(filter_str).v, None, FALSE))
       ELSE None

(* for filter_str in filter_strings: the filters pushed *)
RECURSIVE ParseParts(_, _, _)
PushFilter(parsed, filter_strings, i, filters) ==
  IF parsed.some THEN ParseParts(filter_strings, i + 1, Append(filters, parsed.v))
  ELSE ParseParts(filter_strings, i + 1, filters)
ParseParts(filter_strings, i, filters) ==
  IF i > Len(filter_strings) THEN filters
  ELSE IF Trim(filter_strings[i]) = <<>> THEN ParseParts(filter_strings, i + 1, filters)
  ELSE PushFilter(ParsePart(Trim(filter_strings[i]), Find(Trim(filter_strings[i]), <<46>>)),
                  filter_strings, i, filters)

SomeUnlessEmpty(filters) == IF filters = <<>> THEN None ELSE Some([filters |-> filters])

(* ViewerApp::parse_filter *)
ParseFilter(input) ==
  IF Trim(input) = <<>> THEN None
  ELSE IF FilterStrings(Trim(input)) = <<>> THEN None
  ELSE SomeUnlessEmpty(ParseParts(FilterStrings(Trim(input)), 1, <<>>))

(* the direction of a filter that has none, written as the empty text *)
DirStrEmptyForAny(dir) ==
  IF dir = Some("Clientbound") THEN <<99>>
  ELSE IF dir = Some("Serverbound") THEN <<115>>
  ELSE <<>>

(* to_string: dir_str *)
DirStr(dir) ==
  IF dir = Some("Clientbound") THEN <<99>>
  ELSE IF dir = Some("Serverbound") THEN <<115>>
  ELSE <<97>>

(* Vec<String>::join(",") *)
RECURSIVE Join(_, _)
Join(ss, sep) ==
  IF ss = <<>> THEN <<>>
  ELSE IF Len(ss) = 1 THEN ss[1]
  ELSE ss[1] \o sep \o Join(Tail(ss), sep)

(* PacketFilterSet::to_string *)
FilterSetToString(set) ==
  Join([i \in 1..Len(set.filters) |->
          IF set.filters[i].packet_name.some
          THEN DirStr(set.filters[i].direction) \o <<46>> \o set.filters[i].packet_name.v
          ELSE DirStr(set.filters[i].direction)],
       <<44>>)

(* the filter texts typed: c, s, a, C, x, '.', ',', '*' and the space *)
MaxFilterLen == 4
FilterChars == {99, 115, 97, 67, 120, 46, 44, 42, 32}
FilterInputs == UNION {[1..n -> FilterChars] : n \in 0..MaxFilterLen}

InitFilter ==
  /\ filter_input \in FilterInputs
  /\ filter = NoResult
  /\ filter_text = <<>>
  /\ NoDiff
  /\ NoQuery
  /\ NoInspector
  /\ NoDecoder
  /\ NoLogger
  /\ NoProxy

(* Enter in the filter box: the input is parsed and becomes the current    *)
(* filter, which the title shows with to_string (lines 771-782, 1096-1097) *)
ApplyFilter ==
  /\ filter = NoResult
  /\ filter' = ParseFilter(filter_input)
  /\ filter_text' = IF ParseFilter(filter_input).some
                    THEN FilterSetToString(ParseFilter(filter_input).v)
                    ELSE <<>>
  /\ UNCHANGED <<filter_input, baseline, current, diff, diff_lines, db_packets, query, rows,
                 app, decodeVars, loggerVars, proxyVars>>

NextFilter == ApplyFilter

SpecFilter == InitFilter /\ [][NextFilter]_vars

Applied == filter # NoResult

(* the direction token of a part: its text before the first '.' *)
TokenLen(part) ==
  CHOOSE n \in 0..Len(part) :
    /\ \A i \in 1..n : part[i] # 46
    /\ n = Len(part) \/ part[n + 1] = 46
TokenOf(part) == SubSeq(part, 1, TokenLen(part))
NameOf(part) ==
  IF TokenLen(part) = Len(part) THEN None
  ELSE Some(SubSeq(part, TokenLen(part) + 2, Len(part)))
ValidToken(token) == ToLowercase(token) \in {<<99>>, <<115>>, <<97>>, <<>>}
DirectionNamed(token) ==
  IF ToLowercase(token) = <<99>> THEN Some("Clientbound")
  ELSE IF ToLowercase(token) = <<115>> THEN Some("Serverbound")
  ELSE None
FilterOfPart(part) ==
  PacketFilter(DirectionNamed(TokenOf(part)), NameOf(part),
               NameOf(part).some /\ \E i \in 1..Len(NameOf(part).v) : NameOf(part).v[i] = 42)
FiltersOfParts(parts) == [i \in 1..Len(parts) |-> FilterOfPart(parts[i])]
TrimmedParts(input) == [i \in 1..Len(Split(input, 44)) |-> Trim(Split(input, 44)[i])]
ValidParts(input) ==
  SelectSeq(TrimmedParts(input), LAMBDA part : part # <<>> /\ ValidToken(TokenOf(part)))

(* C14, as the code has it: the comma-separated parts of the input are     *)
(* trimmed; each part that is not empty and whose direction token is c, s, *)
(* a (in either case) or empty gives one filter of the set, in the order   *)
(* of the parts, with direction clientbound for c, serverbound for s and   *)
(* any for a or the empty token, the text after the first '.' as the       *)
(* packet name and wildcard true exactly when the name contains '*'; the   *)
(* other parts give nothing; an input without such a part, the empty input *)
(* included, gives no filter set at all, and the input "a" gives one       *)
(* filter with direction any.                                              *)
C14_ValidPartsBecomeFilters ==
  Applied =>
    /\ filter = IF ValidParts(filter_input) = <<>> THEN None
                ELSE Some([filters |-> FiltersOfParts(ValidParts(filter_input))])
    /\ filter_input = <<97>> => filter = Some([filters |-> <<PacketFilter(None, None, FALSE)>>])
    /\ filter_input = <<>> => filter = None

(* a filter set was parsed from an input that also held a part that was   *)
(* skipped, one of its names a wildcard that does not start with the star  *)
C14_Witness ==
  /\ Applied
  /\ filter.some
  /\ Len(filter.v.filters) < Len(Split(filter_input, 44))
  /\ \E i \in 1..Len(filter.v.filters) :
       /\ filter.v.filters[i].packet_name_is_wildcard
       /\ filter.v.filters[i].packet_name.v[1] # 42

(* C14 as stated: every comma-separated part whose token is c, s, a or     *)
(* empty becomes one filter, so that the inputs "a" and "" both give a     *)
(* filter with direction any.                                              *)
C14_EveryPartBecomesAFilter ==
  (/\ Applied
   /\ \A i \in 1..Len(Split(filter_input, 44)) :
        TokenOf(Split(filter_input, 44)[i]) \in {<<99>>, <<115>>, <<97>>, <<>>})
    => /\ filter.some
       /\ filter.v.filters = FiltersOfParts(Split(filter_input, 44))

(* a filter text in canonical form: no white space, and every part between *)
(* the commas is c, s or a, alone or followed by '.' and a name            *)
Canonical(input) ==
  /\ \A i \in 1..Len(input) : ~IsWhitespace(input[i])
  /\ \A i \in 1..Len(Split(input, 44)) :
       /\ Split(input, 44)[i] # <<>>
       /\ Split(input, 44)[i][1] \in {99, 115, 97}
       /\ Len(Split(input, 44)[i]) > 1 => Split(input, 44)[i][2] = 46

(* C15: a filter text in canonical form, parsed and written back with      *)
(* to_string, is the same text.                                            *)
C15_CanonicalRoundTrip ==
  (Applied /\ Canonical(filter_input)) => (filter.some /\ filter_text = filter_input)

(* a canonical text of two parts, one of them with a name, went through    *)
C15_Witness ==
  /\ Applied
  /\ Canonical(filter_input)
  /\ Len(Split(filter_input, 44)) = 2
  /\ \E i \in 1..Len(filter_input) : filter_input[i] = 46
  /\ \E i \in 1..2 : filter.v.filters[i].direction = None

----------------------------------------------------------------------------
(* db.rs: Database::get_packets, the query it builds and what PostgreSQL   *)
(* answers; lazypacket.rs: to_db_filter_set and SessionLog::load.          *)

(* struct DbPacket: id, session_id, packet_number, direction, and of the   *)
(* packet document its name (packet->>'name', NULL when the document has   *)
(* none); ts, session_time_ms and server_version play no part in the query *)
DbPacket(id, session_id, packet_number, dir, name) ==
  [id |-> id, session_id |-> session_id, packet_number |-> packet_number,
   direction |-> dir, name |-> name]

(* PacketFilterSet::to_db_filter_set *)
ToDbFilter(f) ==
  [direction |-> IF f.direction = Some("Clientbound") THEN Some("clientbound")
                 ELSE IF f.direction = Some("Serverbound") THEN Some("serverbound")
                 ELSE None,
   packet_name |-> f.packet_name,
   packet_name_is_wildcard |-> f.packet_name_is_wildcard]
ToDbFilterSet(set) == [filters |-> [i \in 1..Len(set.filters) |-> ToDbFilter(set.filters[i])]]

(* packet_name.replace('*', "%") *)
ReplaceStar(name) == [i \in 1..Len(name) |-> IF name[i] = 42 THEN 37 ELSE name[i]]

(* format!("direction = '{}'", direction) *)
DirectionCondition(f) ==
  IF f.direction.some
  THEN <<[column |-> "direction", op |-> "=", literal |-> f.direction.v]>>
  ELSE <<>>

(* format!("packet->>'name' ILIKE ${}", param_index) and                   *)
(* format!("packet->>'name' = ${}", param_index), after param_index += 1   *)
NameCondition(f, param_index) ==
  IF f.packet_name.some
  THEN <<[column |-> "packet->>'name'",
          op |-> IF f.packet_name_is_wildcard THEN "ILIKE" ELSE "=",
          param |-> param_index + 1]>>
  ELSE <<>>

(* params.push(Box::new(sql_pattern)) and params.push(Box::new(packet_name.clone())) *)
ParamsPushed(f, params) ==
  IF f.packet_name.some
  THEN Append(params, IF f.packet_name_is_wildcard THEN ReplaceStar(f.packet_name.v)
                      ELSE f.packet_name.v)
  ELSE params

(* format!("({})", filter_conditions.join(" AND ")), or "1=1" *)
FilterCondition(filter_conditions) ==
  IF filter_conditions # <<>> THEN [and |-> filter_conditions]
  ELSE [and |-> <<[column |-> "1", op |-> "=", literal |-> "1"]>>]

(* for filter in &filter_set.filters: conditions and params *)
RECURSIVE BuildConditions(_, _, _, _, _)
BuildConditions(filters, i, param_index, params, conditions) ==
  IF i > Len(filters) THEN [conditions |-> conditions, params |-> params]
  ELSE BuildConditions(filters, i + 1,
         IF filters[i].packet_name.some THEN param_index + 1 ELSE param_index,
         ParamsPushed(filters[i], params),
         Append(conditions,
                FilterCondition(DirectionCondition(filters[i])
                                  \o NameCondition(filters[i], param_index))))

(* the query text and its parameters: the WHERE clause as a tree, the      *)
(* parameters $1, $2, ... as a sequence                                    *)
AllOfSession(session_id) == [where |-> [any |-> <<>>], params |-> <<session_id>>]
Filtered(built) == [where |-> [any |-> built.conditions], params |-> built.params]
BuildQuery(session_id, filter_set) ==
  IF filter_set.some
  THEN IF filter_set.v.filters = <<>> THEN AllOfSession(session_id)
       ELSE Filtered(BuildConditions(filter_set.v.filters, 1, 1, <<session_id>>, <<>>))
  ELSE AllOfSession(session_id)

(* PostgreSQL: text LIKE pattern, % for any run of characters and _ for    *)
(* any one character (the patterns of the model hold no escape character)  *)
RECURSIVE Like(_, _)
Like(text, pattern) ==
  IF pattern = <<>> THEN text = <<>>
  ELSE IF Head(pattern) = 37
       THEN Like(text, Tail(pattern)) \/ (text # <<>> /\ Like(Tail(text), pattern))
  ELSE /\ text # <<>>
       /\ Head(pattern) = 95 \/ Head(pattern) = Head(text)
       /\ Like(Tail(text), Tail(pattern))

(* PostgreSQL: ILIKE, LIKE without regard to case *)
ILike(text, pattern) == Like(ToLowercase(text), ToLowercase(pattern))

(* PostgreSQL: a comparison of the WHERE clause on a row, "T", "F", or "N" *)
(* for NULL                                                                *)
Truth(b) == IF b THEN "T" ELSE "F"
Comparison(c, row, params) ==
  IF c.column = "1" THEN Truth(c.literal = "1")
  ELSE IF c.column = "direction" THEN Truth(row.direction = c.literal)
  ELSE IF ~row.name.some THEN "N"
  ELSE IF c.op = "ILIKE" THEN Truth(ILike(row.name.v, params[c.param]))
  ELSE Truth(row.name.v = params[c.param])

(* PostgreSQL: AND over the comparisons of one filter *)
AllOf(cs, row, params) ==
  IF \E i \in 1..Len(cs) : Comparison(cs[i], row, params) = "F" THEN "F"
  ELSE IF \E i \in 1..Len(cs) : Comparison(cs[i], row, params) = "N" THEN "N"
  ELSE "T"

(* the filters of a WHERE clause that are joined by AND instead of OR *)
JoinAnd(conditions, row, params) ==
  IF \E i \in 1..Len(conditions) : AllOf(conditions[i].and, row, params) = "F" THEN "F"
  ELSE IF \E i \in 1..Len(conditions) : AllOf(conditions[i].and, row, params) = "N" THEN "N"
  ELSE "T"

(* conditions.join(" OR ") *)
JoinOr(conditions, row, params) ==
  IF \E i \in 1..Len(conditions) : AllOf(conditions[i].and, row, params) = "T" THEN "T"
  ELSE IF \E i \in 1..Len(conditions) : AllOf(conditions[i].and, row, params) = "N" THEN "N"
  ELSE "F"

(* "session_id = $1" and format!("session_id = $1 AND ({})", ..): the rows *)
(* the WHERE clause is true of                                             *)
Selected(table, q) ==
  {row \in table :
     /\ row.session_id = q.params[1]
     /\ q.where.any # <<>> => JoinOr(q.where.any, row, q.params) = "T"}

(* ORDER BY packet_number ASC: every order of the selected rows that is    *)
(* ascending in packet_number; rows with equal numbers come in any order   *)
RECURSIVE OrderByPacketNumber(_)
OrderByPacketNumber(selected) ==
  IF selected = {} THEN {<<>>}
  ELSE UNION {{<<first>> \o rest : rest \in OrderByPacketNumber(selected \ {first})} :
                first \in {row \in selected :
                             \A other \in selected : row.packet_number <= other.packet_number}}

(* Database::get_packets: the answers the database can give *)
GetPackets(table, session_id, filter_set) ==
  OrderByPacketNumber(Selected(table, BuildQuery(session_id, filter_set)))

(* the packets table: rows of two sessions, with and without a name, two   *)
(* of them with the same packet number                                     *)
StoredPackets ==
  {DbPacket(1, 1, 1, "clientbound", Some(<<97>>)),
   DbPacket(2, 1, 2, "serverbound", Some(<<97, 98>>)),
   DbPacket(3, 1, 3, "clientbound", None),
   DbPacket(4, 1, 2, "serverbound", Some(<<65>>)),
   DbPacket(5, 2, 1, "clientbound", Some(<<97>>))}
SessionIds == {1, 2}

(* the filters asked for: any direction or one, no name, the name "a", the *)
(* patterns "a*" and "*b"                                                  *)
MaxFilters == 2
QueryFilters ==
  {PacketFilter(dir, name, name.some /\ ContainsStar(name.v)) :
     dir \in {None, Some("Clientbound"), Some("Serverbound")},
     name \in {None, Some(<<97>>), Some(<<97, 42>>), Some(<<42, 98>>)}}
QueryFilterSets ==
  {None} \cup {Some([filters |-> fs]) : fs \in UNION {[1..n -> QueryFilters] : n \in 0..MaxFilters}}

InitQuery ==
  /\ db_packets \in SUBSET StoredPackets
  /\ query = NoResult
  /\ rows = NoResult
  /\ NoDiff
  /\ NoFilter
  /\ NoInspector
  /\ NoDecoder
  /\ NoLogger
  /\ NoProxy

(* SessionLog::load: db.get_packets(session_id, db_filter_set.as_ref()) *)
LoadSession(session_id, set) ==
  /\ query = NoResult
  /\ query' = [session_id |-> session_id, filter |-> set]
  /\ rows' \in GetPackets(db_packets, session_id,
                          IF set.some THEN Some(ToDbFilterSet(set.v)) ELSE None)
  /\ UNCHANGED <<db_packets, baseline, current, diff, diff_lines, filter_input, filter,
                 filter_text, app, decodeVars, loggerVars, proxyVars>>

NextQuery == \E session_id \in SessionIds, set \in QueryFilterSets : LoadSession(session_id, set)

SpecQuery == InitQuery /\ [][NextQuery]_vars

(* a name matches a wildcard pattern: the '*' of the pattern stand for any *)
(* run of characters, the rest is compared without regard to case          *)
RECURSIVE WildcardMatch(_, _)
WildcardMatch(name, pattern) ==
  IF pattern = <<>> THEN name = <<>>
  ELSE IF Head(pattern) = 42
       THEN \E k \in 0..Len(name) : WildcardMatch(SubSeq(name, k + 1, Len(name)), Tail(pattern))
  ELSE /\ name # <<>>
       /\ ToLowercase(<<Head(pattern)>>) = ToLowercase(<<Head(name)>>)
       /\ WildcardMatch(Tail(name), Tail(pattern))

(* a packet satisfies a filter: each predicate the filter has holds *)
Satisfies(row, f) ==
  /\ f.direction = Some("Clientbound") => row.direction = "clientbound"
  /\ f.direction = Some("Serverbound") => row.direction = "serverbound"
  /\ f.packet_name.some =>
       /\ row.name.some
       /\ IF f.packet_name_is_wildcard THEN WildcardMatch(row.name.v, f.packet_name.v)
          ELSE row.name.v = f.packet_name.v

Wanted(table, q) ==
  {row \in table :
     /\ row.session_id = q.session_id
     /\ (q.filter.some /\ q.filter.v.filters # <<>>) =>
          \E i \in 1..Len(q.filter.v.filters) : Satisfies(row, q.filter.v.filters[i])}

----------------------------------------------------------------------------
(* One session's logger, statement by statement: the two directions call   *)
(* Session::log_clientbound and log_serverbound at the same time, and      *)
(* log_packet writes the length, the entry and flushes under the mutex.    *)

(* a lock().await that returns although another task holds the mutex *)
AcquireUnguarded(t) ==
  /\ tasks[t].pc = "lock"
  /\ lock' = t
  /\ tasks' = [tasks EXCEPT ![t].pc = "entry"]
  /\ acquired' = Append(acquired, [task |-> t, direction |-> tasks[t].direction,
                                    data |-> tasks[t].data])
  /\ UNCHANGED <<now, file, writer, logged, loaded, decodeVars, proxyVars, viewerVars>>

(* self.logger.lock().await returns: session.rs lines 44 and 49 *)
AcquireLogger(t) ==
  /\ tasks[t].pc = "lock"
  /\ lock = Free
  /\ lock' = t
  /\ tasks' = [tasks EXCEPT ![t].pc = "entry"]
  /\ acquired' = Append(acquired, [task |-> t, direction |-> tasks[t].direction,
                                    data |-> tasks[t].data])
  /\ UNCHANGED <<now, file, writer, logged, loaded, decodeVars, proxyVars, viewerVars>>

(* log_packet, lines 69-85: the entry is built and serialized, and         *)
(* write_all puts the four bytes of its length into the BufWriter          *)
WriteLength(t) ==
  /\ tasks[t].pc = "entry"
  /\ tasks' = [tasks EXCEPT ![t] = [pc |-> "length",
                                     entry |-> PacketEntry(TimestampMillis(now),
                                                           tasks[t].direction, tasks[t].data,
                                                           Some(DEFAULT_PROTOCOL_VERSION))]]
  /\ writer' = writer \o LeBytes(Len(Serialize(PacketEntry(TimestampMillis(now),
                                                            tasks[t].direction, tasks[t].data,
                                                            Some(DEFAULT_PROTOCOL_VERSION)))), 4)
  /\ UNCHANGED <<now, file, lock, logged, acquired, loaded, decodeVars, proxyVars, viewerVars>>

(* log_packet, line 86: write_all puts the serialized entry after it *)
WriteSerialized(t) ==
  /\ tasks[t].pc = "length"
  /\ tasks' = [tasks EXCEPT ![t] = [pc |-> "serialized", entry |-> tasks[t].entry]]
  /\ writer' = writer \o Serialize(tasks[t].entry)
  /\ UNCHANGED <<now, file, lock, logged, acquired, loaded, decodeVars, proxyVars, viewerVars>>

(* log_packet, line 87, and the drop of the guard: flush gives the file    *)
(* all of the BufWriter, or a part of it when the write fails              *)
Flush(t) ==
  /\ tasks[t].pc = "serialized"
  /\ \E flushed \in {Len(writer)} \cup {k \in FailPoints : k < Len(writer)} :
       /\ file' = file \o SubSeq(writer, 1, flushed)
       /\ writer' = SubSeq(writer, flushed + 1, Len(writer))
       /\ logged' = Append(logged, [entry |-> tasks[t].entry,
                                    result |-> IF flushed = Len(writer) THEN "Ok" ELSE "Err"])
  /\ tasks' = [tasks EXCEPT ![t] = Idle]
  /\ lock' = Free
  /\ UNCHANGED <<now, acquired, loaded, decodeVars, proxyVars, viewerVars>>

NextWrite ==
  \/ Tick
  \/ LogClientbound
  \/ LogServerbound
  \/ \E t \in Tasks : AcquireLogger(t)
  \/ \E t \in Tasks : WriteLength(t)
  \/ \E t \in Tasks : WriteSerialized(t)
  \/ \E t \in Tasks : Flush(t)

SpecWrite == InitLogger /\ [][NextWrite]_vars

(* the tasks that are inside log_packet *)
Writing == {t \in Tasks : tasks[t].pc \in {"entry", "length", "serialized"}}

(* what a task inside log_packet has put into the BufWriter so far *)
Written(t) ==
  IF tasks[t].pc = "length" THEN LeBytes(Len(Serialize(tasks[t].entry)), 4)
  ELSE IF tasks[t].pc = "serialized" THEN Framed(tasks[t].entry)
  ELSE <<>>

(* C21: log calls of the two directions on one session exclude each other: *)
(* at most one is inside log_packet, the records are in the file in the    *)
(* order in which the calls got the mutex, and what the file and the       *)
(* BufWriter hold is whole records one after the other, then the part of   *)
(* the record being written.                                               *)
C21_RecordsInLockOrder ==
  /\ Cardinality(Writing) <= 1
  /\ \A t \in Writing : lock = t
  /\ Len(logged) + Cardinality(Writing) = Len(acquired)
  /\ \A i \in 1..Len(logged) :
       /\ logged[i].entry.direction = acquired[i].direction
       /\ logged[i].entry.data = acquired[i].data
  /\ file \o writer
       = Concat([i \in 1..Len(logged) |-> Framed(logged[i].entry)])
           \o Concat([i \in 1..Len(acquired) |->
                        IF i > Len(logged) THEN Written(acquired[i].task) ELSE <<>>])

(* the serverbound call got the mutex while the clientbound call was       *)
(* waiting for it, and the file holds the two records in that order        *)
C21_Witness ==
  /\ Len(acquired) = 2
  /\ acquired[1].task = "client"
  /\ acquired[2].task = "upstream"
  /\ Len(logged) = 2
  /\ AllOk
  /\ file = Framed(logged[1].entry) \o Framed(logged[2].entry)
  /\ logged[1].entry.direction = "Serverbound"
  /\ logged[2].entry.direction = "Clientbound"
----------------------------------------------------------------------------
(* A reader given a file whose last record was cut short: the length and   *)
(* the entry of log_packet reached the file only in part (packet_logger.rs *)
(* 83-88), after any number of whole records.                              *)
MaxTorn == 2

(* the clock of a machine that never set it: one minute after              *)
(* 1970-01-01T00:00:00Z, timestamp_millis() = 60000                        *)
Unset == <<96, 234, 0, 0, 0, 0, 0, 0>>

TornEntries ==
  {PacketEntry(timestamp, dir, bytes, Some(DEFAULT_PROTOCOL_VERSION)) :
     timestamp \in {Epoch, Unset}, dir \in Directions, bytes \in Payloads}

(* the records before the torn one *)
WholeEntries ==
  {PacketEntry(Epoch, "Serverbound", <<0>>, Some(DEFAULT_PROTOCOL_VERSION)),
   PacketEntry(Unset, "Clientbound", <<>>, Some(DEFAULT_PROTOCOL_VERSION))}

TornLogs ==
  {whole \o <<torn>> :
     whole \in UNION {[1..n -> WholeEntries] : n \in 0..(MaxTorn - 1)},
     torn \in TornEntries}

(* the records that were written in full *)
Whole == SelectSeq(logged, LAMBDA l : l.result = "Ok")

InitTorn ==
  /\ \E entries \in TornLogs :
       \E cut \in 1..(Len(Framed(entries[Len(entries)])) - 1) :
         /\ logged = [i \in 1..Len(entries) |->
                        [entry |-> entries[i],
                         result |-> IF i < Len(entries) THEN "Ok" ELSE "Err"]]
         /\ file = Concat([i \in 1..(Len(entries) - 1) |-> Framed(entries[i])])
                     \o SubSeq(Framed(entries[Len(entries)]), 1, cut)
  /\ acquired = <<>>
  /\ now = 0
  /\ writer = <<>>
  /\ lock = Free
  /\ tasks = [t \in Tasks |-> Idle]
  /\ loaded = NoResult
  /\ NoDecoder
  /\ NoProxy
  /\ NoViewer

(* SessionLog::load of viewer.rs on the session's file *)
ViewLog ==
  /\ loaded = NoResult
  /\ loaded' = ViewerLoad(file)
  /\ UNCHANGED <<now, file, writer, lock, tasks, logged, acquired, decodeVars, proxyVars, viewerVars>>

NextTorn == LoadLog \/ ViewLog

SpecTorn == InitTorn /\ [][NextTorn]_vars

(* the last record is the only one of the file *)
Alone == Len(logged) = 1

C30_PartialRecordDetected ==
  loaded # NoResult =>
    IF Whole = <<>> THEN ~loaded.ok
    ELSE loaded.ok /\ loaded.packets = Entries(Whole)
----------------------------------------------------------------------------
(* C24: a field whose type cannot be resolved fails that field only: for   *)
(* packet_odd, whose second field has the unknown type mystery, the result *)
(* keeps the value of first, decoded before it, and holds a marker for     *)
(* second.                                                                 *)
C24_UnresolvedTypeFailsOnlyItsField ==
  (Named(Name.packet_odd) /\ Len(Payload(data)) >= 1) =>
    /\ Name.first \in DOMAIN decoded.fields
    /\ decoded.fields[Name.first] = JInt(Payload(data)[1])
    /\ Name.second \in DOMAIN decoded.fields
    /\ IsMarker(decoded.fields[Name.second])
----------------------------------------------------------------------------
(* Resolving one type expression against a loaded schema, call by call:    *)
(* parse_type_string calls itself for the definition of an alias (through  *)
(* parse_type) and for the element type of a [] expression, and nothing    *)
(* in it remembers the names already met.                                  *)
StackFrames == 4

TypeName ==
  [ a_arr_li16 |-> <<97, 91, 93, 108, 105, 49, 54>>,   \* "a[]li16"
    native_x |-> <<110, 97, 116, 105, 118, 101, 58, 120>> ]   \* "native:x"

(* what a top-level key of the document can be: left out, an alias of one  *)
(* of the names, or a container with one field                             *)
AliasTargets == {Name.a, Name.b, Str.u8}
Definitions(key) ==
  {<<>>} \cup {<< <<YStr(key), YStr(target)>> >> : target \in AliasTargets}
         \cup {<< <<YStr(key), YMap(<<YField(Name.x, YStr(Str.u8))>>)>> >>}
AliasOnly(key) == {<<>>, << <<YStr(key), YStr(Str.u8)>> >>}

TypeDocuments ==
  {YMap(a \o b \o u \o arr \o nat) :
     a \in Definitions(Name.a), b \in Definitions(Name.b), u \in Definitions(Str.u8),
     arr \in AliasOnly(TypeName.a_arr_li16), nat \in AliasOnly(TypeName.native_x)}

TypeExpressions == {Name.a, Name.b, Str.u8, TypeName.a_arr_li16, TypeName.native_x}

(* the process ended by a stack overflow, or the call never returns (a     *)
(* build that turns the tail call into a jump)                             *)
StackOverflow == [kind |-> "StackOverflow"]
NeverReturns == [kind |-> "NeverReturns"]

(* the type expression parse_type hands on to parse_type_string, if any *)
RECURSIVE CalleeOf(_)
CalleeOf(yaml_value) ==
  IF yaml_value.y = "str" THEN Some(yaml_value.s)
  ELSE IF /\ yaml_value.y = "seq"
          /\ Len(yaml_value.items) >= 2
          /\ yaml_value.items[1] = YStr(Str.encapsulated)
       THEN CalleeOf(yaml_value.items[2])
  ELSE None

(* the call parse_type_string(type_str) makes of itself, if any *)
Callee(type_str) ==
  IF Has(parser.type_aliases, type_str) THEN CalleeOf(parser.type_aliases[type_str])
  ELSE IF Find(type_str, Str.brackets) # 0
       THEN Some(SubSeq(type_str, 1, Find(type_str, Str.brackets) - 1))
  ELSE None

InitResolve ==
  /\ parser \in {LoadFromFile(doc) : doc \in TypeDocuments}
  /\ eof_seeks = FALSE
  /\ data = <<>>
  /\ direction = "Clientbound"
  /\ decoded = NoResult
  /\ call_stack = <<>>
  /\ resolved = NoResult
  /\ NoLogger
  /\ NoProxy
  /\ NoViewer

(* parse_type_string(type_str) called from outside; call_stack keeps the   *)
(* calls made for it, outermost first, also after the return               *)
Call(type_str) ==
  /\ call_stack = <<>>
  /\ resolved = NoResult
  /\ call_stack' = <<type_str>>
  /\ UNCHANGED <<parser, eof_seeks, data, direction, decoded, resolved,
                 loggerVars, proxyVars, viewerVars>>

(* the innermost call calls parse_type_string again *)
Recurse ==
  /\ call_stack # <<>>
  /\ resolved = NoResult
  /\ Callee(call_stack[Len(call_stack)]).some
  /\ Len(call_stack) < StackFrames
  /\ call_stack' = Append(call_stack, Callee(call_stack[Len(call_stack)]).v)
  /\ UNCHANGED <<parser, eof_seeks, data, direction, decoded, resolved,
                 loggerVars, proxyVars, viewerVars>>

(* the innermost call needs no further call: every call returns, the       *)
(* outermost with the type or the error                                    *)
Return ==
  /\ call_stack # <<>>
  /\ resolved = NoResult
  /\ ~Callee(call_stack[Len(call_stack)]).some
  /\ resolved' = ParseTypeString(call_stack[1])
  /\ UNCHANGED <<parser, eof_seeks, data, direction, decoded, call_stack,
                 loggerVars, proxyVars, viewerVars>>

(* the stack is full and the innermost call calls again *)
Overflow ==
  /\ call_stack # <<>>
  /\ resolved = NoResult
  /\ Callee(call_stack[Len(call_stack)]).some
  /\ Len(call_stack) = StackFrames
  /\ resolved' \in {StackOverflow, NeverReturns}
  /\ UNCHANGED <<parser, eof_seeks, data, direction, decoded, call_stack,
                 loggerVars, proxyVars, viewerVars>>

NextResolve ==
  \/ \E type_str \in TypeExpressions : Call(type_str)
  \/ Recurse
  \/ Return
  \/ Overflow

SpecResolve == InitResolve /\ [][NextResolve]_vars

(* following the aliases and element types from type_str meets a name a    *)
(* second time                                                             *)
RECURSIVE MeetsAgain(_, _)
MeetsAgain(type_str, seen) ==
  \/ type_str \in seen
  \/ Callee(type_str).some /\ MeetsAgain(Callee(type_str).v, seen \cup {type_str})
Cyclic(type_str) == MeetsAgain(type_str, {})

CyclicAlias == [ok |-> FALSE, msg |-> "CyclicAlias"]

(* C25: resolving a type expression whose aliases form a cycle ends with   *)
(* the CyclicAlias error, and no resolution calls itself without bound: no *)
(* name is under resolution twice at the same time.                        *)
C25_CycleFailsWithCyclicAlias ==
  /\ \A i, j \in 1..Len(call_stack) : i < j => call_stack[i] # call_stack[j]
  /\ (resolved # NoResult /\ Cyclic(call_stack[1])) => resolved = CyclicAlias

(* the outside call has returned *)
Returned == "ok" \in DOMAIN resolved

(* the type of a [] expression: the element type and the count type named  *)
(* after the brackets, varint when the name is not a count type            *)
ArrayOf(element, count_type_str) ==
  IF ~element.ok THEN element
  ELSE TypeOk(TyArray(element.ty,
                      IF CountTypeNamed(count_type_str).some
                      THEN CountTypeNamed(count_type_str).v ELSE "VarInt"))
BeforeBrackets(type_str) == SubSeq(type_str, 1, Find(type_str, Str.brackets) - 1)
AfterBrackets(type_str) == SubSeq(type_str, Find(type_str, Str.brackets) + 2, Len(type_str))

----------------------------------------------------------------------------
(* One call of decode_value: a type, resolved by parse_type against an     *)
(* empty schema, and the bytes the cursor is placed on.                    *)
MaxRest == 1025

(* integers of 32 and of 64 bits as their little-endian bytes: 0, 1, 2,    *)
(* -1, -2, the largest and the smallest among them                         *)
Words32 ==
  {<<low, mid, mid, top>> :
     low \in {0, 1, 2, 254, 255}, mid \in {0, 255}, top \in {0, 127, 128, 255}}
Words64 ==
  {<<low, mid, mid, mid, mid, mid, mid, top>> :
     low \in {0, 1, 2, 254, 255}, mid \in {0, 255}, top \in {0, 127, 128, 255}}

(* the variable-length form read_varint32 / read_varint64 read: seven bits *)
(* a byte, least significant first, 0x80 set on every byte but the last    *)
RECURSIVE VarintOf(_)
VarintOf(bits) ==
  IF Len(Mag(bits)) <= 7 THEN <<BitsToNat(Resize(bits, 7))>>
  ELSE <<128 + BitsToNat(SubSeq(bits, 1, 7))>> \o VarintOf(SubSeq(bits, 8, Len(bits)))

(* the zigzag form of a signed integer: (v << 1) ^ (v >> (N - 1)) *)
ZigZagForm(bits) ==
  Xor(<<0>> \o SubSeq(bits, 1, Len(bits) - 1), [i \in 1..Len(bits) |-> bits[Len(bits)]])

(* n bytes of a packet *)
RestLengths == {0, 1, 2, 1023, 1024, MaxRest}
RestBytes(n) == [i \in 1..n |-> (7 * i) % 256]

Fixed64 == {Str.i64, Str.u64, Str.li64, Str.lu64}
Varint64 == {Str.varint64, Str.zigzag64}
Encapsulated(type_str) == YSeq(<<YStr(Str.encapsulated), YStr(type_str)>>)

(* the calls of the model: the type as the schema writes it and the bytes *)
ValueInputs ==
  {[type |-> YStr(type_str), bytes |-> word] : type_str \in Fixed64, word \in Words64}
    \cup {[type |-> YStr(type_str), bytes |-> VarintOf(LeBits(word))] :
            type_str \in Varint64, word \in Words64}
    \cup {[type |-> YStr(Str.zigzag32), bytes |-> VarintOf(ZigZagForm(LeBits(word)))] :
            word \in Words32}
    \cup {[type |-> YStr(type_str), bytes |-> RestBytes(n)] :
            type_str \in {Str.restBuffer, TypeName.native_x}, n \in RestLengths}
    \cup {[type |-> Encapsulated(Str.restBuffer), bytes |-> <<n>> \o RestBytes(2)] :
            n \in 0..2}

InitValue ==
  /\ parser = EmptyParser
  /\ \E input \in ValueInputs :
       /\ resolved = ParseType(input.type)
       /\ data = input.bytes
  /\ eof_seeks \in BOOLEAN
  /\ direction = "Clientbound"
  /\ decoded = NoResult
  /\ call_stack = <<>>
  /\ NoLogger
  /\ NoProxy
  /\ NoViewer

(* decode_value(&proto_type) with the cursor at the start of the bytes *)
DecodeOne ==
  /\ decoded = NoResult
  /\ resolved.ok
  /\ decoded' = DecodeValue(resolved.ty, data, 0)
  /\ UNCHANGED <<parser, eof_seeks, data, direction, call_stack, resolved,
                 loggerVars, proxyVars, viewerVars>>

NextValue == DecodeOne

SpecValue == InitValue /\ [][NextValue]_vars

(* the value was decoded as a type of kind k *)
DecodedAs(k) == decoded # NoResult /\ resolved.ty.k = k

(* the 64 bits read from the bytes *)
Bits64 ==
  IF resolved.ty.k \in {"VarInt64", "ZigZag64"} THEN ReadVarint64(data, 0).v ELSE LeBits(data)

(* C26: a decoded value of type u64, i64, varint64, zigzag64, li64 or lu64 *)
(* is a JSON number when it lies within the range of i64 (every signed     *)
(* value, and an unsigned one up to i64::MAX) and its decimal string only  *)
(* when it lies beyond.                                                    *)
C26_NumberWithinI64Range ==
  (\E k \in {"U64", "I64", "VarInt64", "ZigZag64", "LI64", "LU64"} : DecodedAs(k)) =>
    /\ decoded.ok
    /\ IF resolved.ty.k \in {"I64", "LI64"} THEN decoded.v = JSigned(Bits64)
       ELSE IF resolved.ty.k = "ZigZag64" THEN decoded.v = JSigned(ZigZag(Bits64))
       ELSE IF ~IsNegative(Bits64) THEN decoded.v = JUnsigned(Bits64)
       ELSE decoded.v = JString(UnsignedToString(Bits64))

(* the signed integer of 32 bits whose zigzag form the bytes hold *)
Int32s == {LeBits(word) : word \in Words32}

(* C27: for every signed integer v of 32 bits, zigzag32 over the varint    *)
(* of the zigzag form of v gives v: the number read is n, the result is    *)
(* (n >> 1) XOR -(n AND 1) on 32 bits, and all the bytes are consumed.     *)
C27_ZigZag32RoundTrip ==
  DecodedAs("ZigZag32") =>
    \A v \in Int32s :
      data = VarintOf(ZigZagForm(v)) =>
        /\ decoded.ok
        /\ decoded.pos = Len(data)
        /\ decoded.v = JSigned(v)
        /\ LET n == ReadVarint32(data, 0).v
           IN v = Xor(Tail(n) \o <<0>>, Negate(Resize(<<n[1]>>, 32)))

(* -2147483648 came back from the five bytes ff ff ff ff 0f *)
C27_Witness ==
  /\ DecodedAs("ZigZag32")
  /\ data = <<255, 255, 255, 255, 15>>
  /\ decoded.ok
  /\ decoded.v = [t |-> "num", neg |-> TRUE, mag |-> [i \in 1..32 |-> IF i = 32 THEN 1 ELSE 0]]

(* the bytes of an encapsulated value: those that its length announces *)
Scope ==
  IF resolved.ty.k = "Encapsulated"
  THEN [from |-> 1, to |-> Min(1 + data[1], Len(data))]
  ELSE [from |-> 0, to |-> Len(data)]

(* the value of the RestBuffer or Native, alone or inside the encapsulated *)
RestKind == IF resolved.ty.k = "Encapsulated" THEN resolved.ty.inner.k ELSE resolved.ty.k

----------------------------------------------------------------------------
(* proxy.rs: ProxyServer::run and handle_client_packet line by line: the   *)
(* one task of the proxy, the guards it takes on the RwLock of the session *)
(* table and the calls of socket.send_to it makes.                         *)

(* the guard that sessions.read().await or sessions.write().await gives at *)
(* a line of proxy.rs                                                      *)
ReadGuard(line) == [kind |-> "read", line |-> line]
WriteGuard(line) == [kind |-> "write", line |-> line]

(* from_addr and packet_data of the datagram the task is handling *)
FromAddr == received[Len(received)].from_addr
PacketData == received[Len(received)].data

RecvErrors == Cardinality({i \in 1..Len(reported) : reported[i] = "Error receiving packet"})

InitRun == InitProxy

(* lines 57-62: recv_from returns a datagram, and run takes a read guard *)
RecvFrom ==
  /\ pc = "recv_from"
  /\ Len(received) + RecvErrors < MaxDatagrams
  /\ \E from_addr \in Clients \cup {upstream_addr}, bytes \in Payloads :
       received' = Append(received, [from_addr |-> from_addr, data |-> bytes])
  /\ guards' = guards \cup {ReadGuard(62)}
  /\ pc' = "contains_key"
  /\ UNCHANGED <<sessions, sent, reported, new_sessions, hasher, send_calls,
                 decodeVars, loggerVars, viewerVars>>

(* lines 105-107: recv_from fails, and the loop goes on *)
RecvFromFails ==
  /\ pc = "recv_from"
  /\ Len(received) + RecvErrors < MaxDatagrams
  /\ reported' = Append(reported, "Error receiving packet")
  /\ UNCHANGED <<sessions, sent, received, new_sessions, hasher, runVars,
                 decodeVars, loggerVars, viewerVars>>

(* lines 63-66: is_client, drop(sessions_read), and the branch *)
ContainsKey ==
  /\ pc = "contains_key"
  /\ guards' = guards \ {ReadGuard(62)}
  /\ pc' = IF IsClient(FromAddr) THEN "handle_client_packet" ELSE "sessions_read"
  /\ UNCHANGED <<sessions, sent, reported, received, new_sessions, hasher, send_calls,
                 decodeVars, loggerVars, viewerVars>>

(* line 115: the read guard of the block that looks the session up *)
SessionsReadForGet ==
  /\ pc = "handle_client_packet"
  /\ guards' = guards \cup {ReadGuard(115)}
  /\ pc' = "get"
  /\ UNCHANGED <<sessions, sent, reported, received, new_sessions, hasher, send_calls,
                 decodeVars, loggerVars, viewerVars>>

(* lines 116-119: sessions.get(&client_addr).cloned(), the block ends and  *)
(* its guard is dropped                                                    *)
Get ==
  /\ pc = "get"
  /\ guards' = guards \ {ReadGuard(115)}
  /\ pc' = IF Has(sessions, FromAddr) THEN "log_serverbound" ELSE "new_session"
  /\ UNCHANGED <<sessions, sent, reported, received, new_sessions, hasher, send_calls,
                 decodeVars, loggerVars, viewerVars>>

(* lines 123-132: Session::new; its error ends the handler, run reports it *)
SessionNew ==
  /\ pc = "new_session"
  /\ \E created \in BOOLEAN :
       IF created
       THEN /\ new_sessions' = Append(new_sessions, [id |-> NewV4, client_addr |-> FromAddr])
            /\ pc' = "sessions_write"
            /\ UNCHANGED reported
       ELSE /\ reported' = Append(reported, "Failed to create session")
            /\ pc' = "recv_from"
            /\ UNCHANGED new_sessions
  /\ UNCHANGED <<sessions, sent, received, hasher, guards, send_calls,
                 decodeVars, loggerVars, viewerVars>>

(* line 136: the write guard of the block that stores the session *)
SessionsWrite ==
  /\ pc = "sessions_write"
  /\ guards' = guards \cup {WriteGuard(136)}
  /\ pc' = "insert"
  /\ UNCHANGED <<sessions, sent, reported, received, new_sessions, hasher, send_calls,
                 decodeVars, loggerVars, viewerVars>>

(* lines 137-138: the insert, the block ends and its guard is dropped *)
InsertSession ==
  /\ pc = "insert"
  /\ sessions' = Insert(sessions, FromAddr,
                        NewSession(new_sessions[Len(new_sessions)].id, FromAddr))
  /\ guards' = guards \ {WriteGuard(136)}
  /\ pc' = "log_serverbound"
  /\ UNCHANGED <<sent, reported, received, new_sessions, hasher, send_calls,
                 decodeVars, loggerVars, viewerVars>>

(* lines 144-146: session.log_serverbound(data.clone()); its error ends    *)
(* the handler                                                             *)
RunLogServerbound ==
  /\ pc = "log_serverbound"
  /\ \E flushed \in FlushOutcomes(sessions[FromAddr].logger, "Serverbound", PacketData) :
       LET out == LogPacket(sessions[FromAddr].logger, "Serverbound", PacketData,
                            TimestampMillis(now), flushed)
       IN /\ sessions' = [sessions EXCEPT ![FromAddr].logger = out.logger]
          /\ IF out.result = "Ok"
             THEN pc' = "send_to_upstream" /\ UNCHANGED reported
             ELSE /\ pc' = "recv_from"
                  /\ reported' = Append(reported, "Failed to log packet")
  /\ UNCHANGED <<sent, received, new_sessions, hasher, guards, send_calls,
                 decodeVars, loggerVars, viewerVars>>

(* socket.send_to(data, to) for the datagram in hand, called for the       *)
(* session of client_addr: the call, and what the socket did with it       *)
SendTo(client_addr, dir, to, failure) ==
  \E send_ok \in BOOLEAN :
    /\ send_calls' = Append(send_calls, [session |-> client_addr, direction |-> dir,
                                         data |-> PacketData])
    /\ IF send_ok
       THEN sent' = Append(sent, [to |-> to, data |-> PacketData]) /\ UNCHANGED reported
       ELSE reported' = Append(reported, failure) /\ UNCHANGED sent

(* lines 149-163: the datagram goes to the upstream *)
SendToUpstream ==
  /\ pc = "send_to_upstream"
  /\ SendTo(FromAddr, "Serverbound", upstream_addr, "Failed to forward packet to upstream")
  /\ pc' = "recv_from"
  /\ UNCHANGED <<sessions, received, new_sessions, hasher, guards,
                 decodeVars, loggerVars, viewerVars>>

(* line 84: the read guard sessions_read of the upstream branch; it lives  *)
(* until the branch ends at line 103                                       *)
SessionsRead ==
  /\ pc = "sessions_read"
  /\ guards' = guards \cup {ReadGuard(84)}
  /\ pc' = "is_empty"
  /\ UNCHANGED <<sessions, sent, reported, received, new_sessions, hasher, send_calls,
                 decodeVars, loggerVars, viewerVars>>

(* lines 85-87: no session, a warning and the end of the branch; or the    *)
(* session the iterator gives first                                        *)
IsEmpty ==
  /\ pc = "is_empty"
  /\ IF DOMAIN sessions = {}
     THEN /\ reported' = Append(reported, "no active sessions to forward to")
          /\ guards' = guards \ {ReadGuard(84)}
          /\ pc' = "recv_from"
     ELSE /\ pc' = "log_clientbound"
          /\ UNCHANGED <<reported, guards>>
  /\ UNCHANGED <<sessions, sent, received, new_sessions, hasher, send_calls,
                 decodeVars, loggerVars, viewerVars>>

(* lines 89-91: session.log_clientbound(packet_data.clone()); its error is *)
(* reported and the branch goes on                                         *)
RunLogClientbound ==
  /\ pc = "log_clientbound"
  /\ \E flushed \in FlushOutcomes(sessions[IterNext(sessions)].logger,
                                  "Clientbound", PacketData) :
       LET out == LogPacket(sessions[IterNext(sessions)].logger, "Clientbound",
                            PacketData, TimestampMillis(now), flushed)
       IN /\ sessions' = [sessions EXCEPT ![IterNext(sessions)].logger = out.logger]
          /\ reported' = IF out.result = "Ok" THEN reported
                         ELSE Append(reported, "Failed to log clientbound packet")
  /\ pc' = "send_to_client"
  /\ UNCHANGED <<sent, received, new_sessions, hasher, guards, send_calls,
                 decodeVars, loggerVars, viewerVars>>

(* lines 94-103: the datagram goes to the client, the branch ends and      *)
(* sessions_read is dropped                                                *)
SendToClient ==
  /\ pc = "send_to_client"
  /\ SendTo(IterNext(sessions), "Clientbound", IterNext(sessions),
            "Failed to forward packet to client")
  /\ guards' = guards \ {ReadGuard(84)}
  /\ pc' = "recv_from"
  /\ UNCHANGED <<sessions, received, new_sessions, hasher,
                 decodeVars, loggerVars, viewerVars>>

NextRun ==
  \/ RecvFrom
  \/ RecvFromFails
  \/ ContainsKey
  \/ SessionsReadForGet
  \/ Get
  \/ SessionNew
  \/ SessionsWrite
  \/ InsertSession
  \/ RunLogServerbound
  \/ SendToUpstream
  \/ SessionsRead
  \/ IsEmpty
  \/ RunLogClientbound
  \/ SendToClient

SpecRun == InitRun /\ [][NextRun]_vars

(* the task is about to call socket.send_to *)
Sending == pc \in {"send_to_upstream", "send_to_client"}

(* C31: no guard of the session table's lock is alive when the proxy calls *)
(* socket.send_to, on the serverbound path and on the clientbound path.    *)
C31_NoGuardWhileSending == Sending => guards = {}

(* the datagrams of the records that a session's logger was given, one     *)
(* direction of them, in the order of the file                             *)
DataOf(entries) == [i \in 1..Len(entries) |-> entries[i].data]
LoggedSequence(client_addr, dir) ==
  DataOf(SelectSeq(ReadFramed(Recorded(sessions[client_addr].logger), 0, <<>>),
                   LAMBDA entry : entry.direction = dir))

(* the datagrams socket.send_to was called with for a session, one         *)
(* direction of them, in the order of the calls                            *)
ForwardedSequence(client_addr, dir) ==
  DataOf(SelectSeq(send_calls,
                   LAMBDA call : call.session = client_addr /\ call.direction = dir))

StartsWith(long, short) ==
  Len(short) <= Len(long) /\ SubSeq(long, 1, Len(short)) = short

(* C32: within one session and one direction, a datagram is logged before  *)
(* it is forwarded, and once the proxy is done with a datagram the logged  *)
(* sequence and the forwarded sequence are the same datagrams in the same  *)
(* order.                                                                  *)
C32_LogOrderIsSendOrder ==
  \A client_addr \in DOMAIN sessions, dir \in {"Clientbound", "Serverbound"} :
    /\ StartsWith(LoggedSequence(client_addr, dir), ForwardedSequence(client_addr, dir))
    /\ pc = "recv_from" =>
         LoggedSequence(client_addr, dir) = ForwardedSequence(client_addr, dir)

----------------------------------------------------------------------------
(* A reader given a file of whole framed records that goes on with bytes   *)
(* that are no record: a length of zero, a length above 10,000,000, a      *)
(* length above what is left, a record that cannot be decoded, or entries  *)
(* written without a length; with or without a whole record after them.    *)
MaxWhole == 2

Junk == <<1, 2, 3>>
TooLong == <<129, 150, 152, 0>>       \* 10,000,001 as a little-endian u32

BadStarts ==
  {<<0, 0, 0, 0>>, <<0, 0, 0, 0>> \o Junk,
   TooLong \o Junk, <<255, 255, 255, 255>> \o Junk,
   <<9, 0, 0, 0>> \o Junk,
   <<3, 0, 0, 0>> \o Junk}
  \cup {Serialize(entry) : entry \in WholeEntries}

Tails ==
  BadStarts \cup {bad \o Framed(entry) : bad \in BadStarts, entry \in WholeEntries}

(* what the tail of the file is to the loop over the framed records that   *)
(* has come to it                                                          *)
PrefixOf(tail) == LeBits(SubSeq(tail, 1, 4))
InvalidPrefix(tail) ==
  \/ Mag(PrefixOf(tail)) = <<>>
  \/ ~IsSmall(PrefixOf(tail))
  \/ BitsToNat(PrefixOf(tail)) > MaxEntryLen
  \/ BitsToNat(PrefixOf(tail)) > Len(tail) - 4
Undecodable(tail) ==
  /\ ~InvalidPrefix(tail)
  /\ ~Deserialize(SubSeq(tail, 5, 4 + BitsToNat(PrefixOf(tail))), 0).ok

InitTail ==
  /\ \E entries \in UNION {[1..n -> WholeEntries] : n \in 1..MaxWhole}, tail \in Tails :
       /\ logged = [i \in 1..Len(entries) |-> [entry |-> entries[i], result |-> "Ok"]]
       /\ file = Concat([i \in 1..Len(entries) |-> Framed(entries[i])]) \o tail
  /\ acquired = <<>>
  /\ now = 0
  /\ writer = <<>>
  /\ lock = Free
  /\ tasks = [t \in Tasks |-> Idle]
  /\ loaded = NoResult
  /\ NoDecoder
  /\ NoProxy
  /\ NoViewer

(* log_reader <log_file> [max_packets] on the session's file *)
ReadLog ==
  /\ loaded = NoResult
  /\ \E max_packets \in {1, 10} :
       loaded' = LogReaderMain(file, max_packets)
  /\ UNCHANGED <<now, file, writer, lock, tasks, logged, acquired, decodeVars, proxyVars, viewerVars>>

NextTail == LoadLog \/ ViewLog \/ ReadLog

SpecTail == InitTail /\ [][NextTail]_vars

(* the bytes of the file after its whole records *)
TailOfFile ==
  SubSeq(file, Len(Concat([i \in 1..Len(logged) |-> Framed(logged[i].entry)])) + 1, Len(file))

(* C35: once the loop over the framed records has read a record, a length  *)
(* that is zero, above 10,000,000 or above the bytes left, or a record     *)
(* that cannot be decoded, ends the reading: the load succeeds with the    *)
(* records read so far, the bytes after them are ignored, and the entries  *)
(* without a length are not tried.                                         *)
C35_StopsAtBadRecordAfterGoodOnes ==
  [][((LoadLog \/ ViewLog \/ ReadLog) /\ (InvalidPrefix(TailOfFile) \/ Undecodable(TailOfFile))) =>
       /\ loaded'.ok
       /\ ~TriesLegacy(ReadFramed(file, 0, <<>>), file)
       /\ IF ReadLog
          THEN loaded'.packets = SubSeq(Entries(logged), 1, Min(loaded'.max_packets, Len(logged)))
          ELSE /\ loaded'.packets = Entries(logged)
               /\ loaded'.start_time = logged[1].entry.timestamp]_vars

(* two records were read, then came a length of zero and, after it, a      *)
(* whole record that was not read                                          *)
C35_Witness ==
  /\ Len(logged) = 2
  /\ TailOfFile = <<0, 0, 0, 0>> \o Framed(logged[1].entry)
  /\ loaded # NoResult
  /\ loaded.ok
  /\ loaded.packets = Entries(logged)

----------------------------------------------------------------------------
(* lazypacket.rs: the inspector. ViewerApp, SessionLog::load, load_session *)
(* and the keys of main in the session list, the packet view and the       *)
(* filter box. Tag management and the confirmation dialog are left out:    *)
(* they touch none of the fields modelled here.                            *)
MaxInput == 3
MaxScroll == 1

(* the packets table the inspector reads: three packets of session 1, one  *)
(* of session 2                                                            *)
InspectedPackets ==
  {DbPacket(1, 1, 1, "clientbound", Some(<<99>>)),
   DbPacket(2, 1, 2, "serverbound", Some(<<120>>)),
   DbPacket(3, 1, 3, "clientbound", None),
   DbPacket(4, 2, 1, "serverbound", Some(<<99>>))}

(* app.sessions: the ids of get_sessions *)
Listed == <<1, 2>>

(* the packet column of a row: a document with the name the row has and a  *)
(* value of its own                                                        *)
PacketDocument(row) ==
  JObject(IF row.name.some
          THEN (<<110, 97, 109, 101>> :> JString(row.name.v)) @@ (<<118>> :> JInt(row.id))
          ELSE (<<118>> :> JInt(row.id)))

(* lines 76-112: the PacketEntry of a row; its timestamp, data and         *)
(* protocol_version are not modelled                                       *)
EntryOfRow(row) ==
  [direction |-> IF row.direction = "clientbound" THEN "Clientbound" ELSE "Serverbound",
   packet_json |-> Some(PacketDocument(row)),
   packet_number |-> Some(row.packet_number)]

LoadOk(log) == [ok |-> TRUE, log |-> log]
LoadErr(error) == [ok |-> FALSE, error |-> error]

(* a load that returns a log without packets when no packet is found *)
SessionLogOfRowsAlways(session_id, db_rows) ==
  LoadOk([session_id |-> session_id,
          packets |-> [i \in 1..Len(db_rows) |-> EntryOfRow(db_rows[i])]])

(* lines 68-119: the log of the rows get_packets returned *)
SessionLogOfRows(session_id, db_rows) ==
  IF db_rows = <<>> THEN LoadErr("No packets found for session")
  ELSE LoadOk([session_id |-> session_id,
               packets |-> [i \in 1..Len(db_rows) |-> EntryOfRow(db_rows[i])]])

(* SessionLog::load: the results it can have, with a store that answers    *)
(* and with one that fails                                                 *)
SessionLogLoad(table, session_id, filter_set) ==
  {SessionLogOfRows(session_id, db_rows) :
     db_rows \in GetPackets(table, session_id,
                            IF filter_set.some THEN Some(ToDbFilterSet(filter_set.v))
                            ELSE None)}
  \cup {LoadErr("db error")}

(* ViewerApp::new, lines 211-233 *)
NewApp ==
  [sessions |-> Listed, selected_session |-> 0, current_log |-> None, packet_index |-> 0,
   mode |-> "SessionList", error_message |-> None, show_hex |-> FALSE,
   packet_details_scroll |-> 0, diff_panel_scroll |-> 0, filter_input |-> <<>>,
   current_filter |-> None, compare_mode |-> FALSE, baseline_packet_index |-> None,
   baseline_packet_json |-> None]

InitInspector ==
  /\ app = NewApp
  /\ db_packets = InspectedPackets
  /\ query = NoResult
  /\ rows = NoResult
  /\ NoDiff
  /\ NoFilter
  /\ NoDecoder
  /\ NoLogger
  /\ NoProxy

(* the packets of the log loaded, none when there is no log *)
Packets(a) == IF a.current_log.some THEN a.current_log.v.packets ELSE <<>>

(* current_packet, lines 340-342 *)
CurrentPacket(a) ==
  IF a.current_log.some /\ a.packet_index < Len(Packets(a))
  THEN Some(Packets(a)[a.packet_index + 1])
  ELSE None

(* current_filter.as_ref().map(|f| f.to_string()).unwrap_or_else(|| "a") *)
FilterText(a) ==
  IF a.current_filter.some THEN FilterSetToString(a.current_filter.v) ELSE <<97>>

Abs(n) == IF n < 0 THEN 0 - n ELSE n

(* find_closest_packet_index, lines 344-368: the first index whose         *)
(* packet_number is nearest to the target                                  *)
RECURSIVE ClosestFrom(_, _, _, _, _)
ClosestFrom(packets, target_packet_number, index, min_diff, closest_index) ==
  IF index >= Len(packets) THEN closest_index
  ELSE IF /\ packets[index + 1].packet_number.some
          /\ (min_diff = -1
              \/ Abs(packets[index + 1].packet_number.v - target_packet_number) < min_diff)
  THEN ClosestFrom(packets, target_packet_number, index + 1,
                   Abs(packets[index + 1].packet_number.v - target_packet_number), index)
  ELSE ClosestFrom(packets, target_packet_number, index + 1, min_diff, closest_index)

(* min_diff = -1 stands for i64::MAX *)
FindClosestPacketIndex(a, target_packet_number) ==
  IF a.current_log.some /\ Packets(a) # <<>>
  THEN ClosestFrom(Packets(a), target_packet_number, 0, -1, 0)
  ELSE 0

(* prev_packet, lines 370-377 *)
PrevPacket(a) ==
  IF a.packet_index > 0
  THEN [a EXCEPT !.packet_index = a.packet_index - 1,
                 !.packet_details_scroll = 0, !.diff_panel_scroll = 0]
  ELSE a

(* a next_packet that takes the baseline along to the packet it moves to *)
NextPacketWithBaseline(a) ==
  IF a.current_log.some /\ a.packet_index < Max(Len(Packets(a)), 1) - 1
  THEN [a EXCEPT !.packet_index = a.packet_index + 1,
                 !.baseline_packet_index =
                   IF a.compare_mode THEN Some(a.packet_index + 1) ELSE None,
                 !.baseline_packet_json =
                   IF a.compare_mode THEN Packets(a)[a.packet_index + 2].packet_json ELSE None,
                 !.packet_details_scroll = 0, !.diff_panel_scroll = 0]
  ELSE a

(* next_packet, lines 379-388 *)
NextPacket(a) ==
  IF a.current_log.some /\ a.packet_index < Max(Len(Packets(a)), 1) - 1
  THEN [a EXCEPT !.packet_index = a.packet_index + 1,
                 !.packet_details_scroll = 0, !.diff_panel_scroll = 0]
  ELSE a

(* for _ in 0..10 { f } *)
RECURSIVE Times(_, _, _)
Times(n, step, a) ==
  IF n = 0 THEN a
  ELSE Times(n - 1, step, IF step = "prev" THEN PrevPacket(a) ELSE NextPacket(a))

(* load_session, lines 246-275, with the result of SessionLog::load: the   *)
(* app after it and whether it returned an error                           *)
LoadSessionWith(a, result) ==
  IF result.ok
  THEN [a EXCEPT !.current_log = Some(result.log), !.packet_index = 0,
                 !.packet_details_scroll = 0, !.diff_panel_scroll = 0,
                 !.compare_mode = FALSE, !.baseline_packet_index = None,
                 !.baseline_packet_json = None, !.filter_input = FilterText(a),
                 !.mode = "PacketView"]
  ELSE a

(* Enter in the session list, lines 629-634 *)
OnListEnter(a, result) ==
  IF result.ok THEN LoadSessionWith([a EXCEPT !.error_message = None], result)
  ELSE [a EXCEPT !.error_message = Some("Failed to load session")]

(* q in the packet view, lines 654-661 *)
OnQ(a) ==
  [a EXCEPT !.mode = "SessionList", !.current_log = None, !.compare_mode = FALSE,
            !.baseline_packet_index = None, !.baseline_packet_json = None]

(* Esc in the packet view, lines 662-674 *)
OnEsc(a) ==
  IF a.compare_mode
  THEN [a EXCEPT !.compare_mode = FALSE, !.baseline_packet_index = None,
                 !.baseline_packet_json = None,
                 !.packet_details_scroll = 0, !.diff_panel_scroll = 0]
  ELSE [a EXCEPT !.mode = "SessionList", !.current_log = None]

(* c in the packet view, lines 675-687: the current packet is the baseline *)
OnC(a) ==
  IF CurrentPacket(a).some /\ CurrentPacket(a).v.packet_json.some
  THEN [a EXCEPT !.compare_mode = TRUE, !.baseline_packet_index = Some(a.packet_index),
                 !.baseline_packet_json = Some(CurrentPacket(a).v.packet_json.v),
                 !.packet_details_scroll = 0, !.diff_panel_scroll = 0]
  ELSE a

(* Up and Down in the packet view, lines 694-705 *)
OnUp(a) ==
  IF a.packet_details_scroll > 0
  THEN [a EXCEPT !.packet_details_scroll = a.packet_details_scroll - 1]
  ELSE a
OnDown(a) == [a EXCEPT !.packet_details_scroll = a.packet_details_scroll + 1]

(* PageUp and PageDown, lines 706-729 *)
OnPage(a, step) ==
  IF Times(10, step, a).packet_index # a.packet_index
  THEN [Times(10, step, a) EXCEPT !.packet_details_scroll = 0, !.diff_panel_scroll = 0]
  ELSE Times(10, step, a)

(* Home and End, lines 730-741 *)
OnHome(a) ==
  [a EXCEPT !.packet_index = 0, !.packet_details_scroll = 0, !.diff_panel_scroll = 0]
OnEnd(a) ==
  IF a.current_log.some
  THEN [a EXCEPT !.packet_index = Max(Len(Packets(a)), 1) - 1,
                 !.packet_details_scroll = 0, !.diff_panel_scroll = 0]
  ELSE a

(* x in the packet view, lines 742-748 *)
OnX(a) ==
  [a EXCEPT !.show_hex = ~a.show_hex, !.packet_details_scroll = 0, !.diff_panel_scroll = 0]

(* f in the packet view, lines 749-756 *)
OnF(a) == [a EXCEPT !.filter_input = FilterText(a), !.mode = "FilterInput"]

(* Esc in the filter box, lines 762-768 *)
OnFilterEsc(a) == [a EXCEPT !.filter_input = FilterText(a), !.mode = "PacketView"]

(* lines 774-780: the number of the current packet, or of the first one *)
CurrentPacketNumber(a) ==
  IF CurrentPacket(a).some /\ CurrentPacket(a).v.packet_number.some
  THEN CurrentPacket(a).v.packet_number
  ELSE IF Packets(a) # <<>> THEN Packets(a)[1].packet_number
  ELSE None

(* an Enter in the filter box that keeps the baseline when the log is      *)
(* loaded again                                                            *)
OnFilterEnterKeepingBaseline(a, parsed, result) ==
  IF result.ok
  THEN [a EXCEPT !.current_filter = parsed, !.mode = "PacketView",
                 !.current_log = Some(result.log),
                 !.packet_index =
                   IF CurrentPacketNumber(a).some
                   THEN FindClosestPacketIndex([a EXCEPT !.current_log = Some(result.log)],
                                               CurrentPacketNumber(a).v)
                   ELSE 0,
                 !.packet_details_scroll = 0, !.diff_panel_scroll = 0]
  ELSE [a EXCEPT !.current_filter = parsed, !.mode = "PacketView",
                 !.error_message = Some("Failed to load filtered packets")]

(* Enter in the filter box, lines 769-818, with what parse_filter made of  *)
(* the input and the result of SessionLog::load                            *)
OnFilterEnter(a, parsed, result) ==
  IF result.ok
  THEN [a EXCEPT !.current_filter = parsed, !.mode = "PacketView",
                 !.current_log = Some(result.log),
                 !.compare_mode = FALSE, !.baseline_packet_index = None,
                 !.baseline_packet_json = None,
                 !.packet_index =
                   IF CurrentPacketNumber(a).some
                   THEN FindClosestPacketIndex([a EXCEPT !.current_log = Some(result.log)],
                                               CurrentPacketNumber(a).v)
                   ELSE 0,
                 !.packet_details_scroll = 0, !.diff_panel_scroll = 0]
  ELSE [a EXCEPT !.current_filter = parsed, !.mode = "PacketView",
                 !.error_message = Some("Failed to load filtered packets")]

(* Backspace and a character in the filter box, lines 819-825 *)
OnBackspace(a) ==
  [a EXCEPT !.filter_input = SubSeq(a.filter_input, 1, Len(a.filter_input) - 1)]
OnChar(a, c) == [a EXCEPT !.filter_input = Append(a.filter_input, c)]

(* the keys typed into the filter box: c, x and ',' *)
Typed == {99, 120, 44}

(* a key is pressed in a mode and its handler leaves the app as next *)
Press(mode, next) ==
  /\ app # NoResult
  /\ app.mode = mode
  /\ app' = next
  /\ UNCHANGED <<baseline, current, diff, diff_lines, filter_input, filter, filter_text,
                 db_packets, query, rows, decodeVars, loggerVars, proxyVars>>

(* the session list, lines 616-651 *)
ListUp ==
  Press("SessionList",
        IF app.selected_session > 0
        THEN [app EXCEPT !.selected_session = app.selected_session - 1] ELSE app)
ListDown ==
  Press("SessionList",
        IF app.selected_session < Max(Len(app.sessions), 1) - 1
        THEN [app EXCEPT !.selected_session = app.selected_session + 1] ELSE app)
ListEnter ==
  /\ app.mode = "SessionList"
  /\ \E result \in SessionLogLoad(db_packets, app.sessions[app.selected_session + 1],
                               app.current_filter) :
       Press("SessionList", OnListEnter(app, result))

(* the packet view, lines 652-759 *)
ViewQ == Press("PacketView", OnQ(app))
ViewEsc == Press("PacketView", OnEsc(app))
ViewC == Press("PacketView", OnC(app))
ViewLeft == Press("PacketView", PrevPacket(app))
ViewRight == Press("PacketView", NextPacket(app))
ViewUp == Press("PacketView", OnUp(app))
ViewDown ==
  /\ app.mode = "PacketView"
  /\ app.packet_details_scroll < MaxScroll
  /\ Press("PacketView", OnDown(app))
ViewPageUp == Press("PacketView", OnPage(app, "prev"))
ViewPageDown == Press("PacketView", OnPage(app, "next"))
ViewHome == Press("PacketView", OnHome(app))
ViewEnd == Press("PacketView", OnEnd(app))
ViewX == Press("PacketView", OnX(app))
ViewF == Press("PacketView", OnF(app))

(* the filter box, lines 760-828 *)
BoxEsc == Press("FilterInput", OnFilterEsc(app))
BoxEnter ==
  /\ app.mode = "FilterInput"
  /\ \E result \in SessionLogLoad(db_packets, app.sessions[app.selected_session + 1],
                               ParseFilter(app.filter_input)) :
       Press("FilterInput", OnFilterEnter(app, ParseFilter(app.filter_input), result))
BoxBackspace == Press("FilterInput", OnBackspace(app))
BoxChar ==
  /\ app.mode = "FilterInput"
  /\ Len(app.filter_input) < MaxInput
  /\ \E c \in Typed : Press("FilterInput", OnChar(app, c))

NextInspector ==
  \/ ListUp
  \/ ListDown
  \/ ListEnter
  \/ ViewQ
  \/ ViewEsc
  \/ ViewC
  \/ ViewLeft
  \/ ViewRight
  \/ ViewUp
  \/ ViewDown
  \/ ViewPageUp
  \/ ViewPageDown
  \/ ViewHome
  \/ ViewEnd
  \/ ViewX
  \/ ViewF
  \/ BoxEsc
  \/ BoxEnter
  \/ BoxBackspace
  \/ BoxChar

SpecInspector == InitInspector /\ [][NextInspector]_vars

(* ui and render_diff_panel, lines 1143-1145, 1301-1327 and 1347-1419:     *)
(* what the differences panel shows of the JSON (the deltas of time and    *)
(* packet number above it are left out), or that there is no panel         *)
DiffPanel(a) ==
  IF ~(a.compare_mode /\ ~a.show_hex) THEN [kind |-> "no panel"]
  ELSE IF ~CurrentPacket(a).some THEN [kind |-> "No packet selected"]
  ELSE IF ~CurrentPacket(a).v.packet_json.some
  THEN [kind |-> "Error: Current packet JSON not available for comparison"]
  ELSE IF ~a.baseline_packet_json.some
  THEN [kind |-> "Error: Baseline packet JSON not available"]
  ELSE IF a.baseline_packet_index = Some(a.packet_index)
  THEN [kind |-> "This is the baseline packet for comparison."]
  ELSE [kind |-> "Differences",
        lines |-> FormatJsonDiff(CompareJson(a.baseline_packet_json.v,
                                             CurrentPacket(a).v.packet_json.v), <<>>, 0)]

(* the keys of the packet view that move between packets, scroll, or      *)
(* switch between JSON and hex                                             *)
Navigation ==
  \/ ViewLeft
  \/ ViewRight
  \/ ViewUp
  \/ ViewDown
  \/ ViewPageUp
  \/ ViewPageDown
  \/ ViewHome
  \/ ViewEnd
  \/ ViewX

(* C33: once a baseline is selected, the keys that navigate leave          *)
(* compare_mode, baseline_packet_index and baseline_packet_json as they    *)
(* were, and the differences shown after the key are those of the current  *)
(* packet against that baseline.                                           *)
C33_BaselineFixedWhileNavigating ==
  [][(app.compare_mode /\ Navigation) =>
       /\ app'.compare_mode
       /\ app'.baseline_packet_index = app.baseline_packet_index
       /\ app'.baseline_packet_json = app.baseline_packet_json
       /\ DiffPanel(app').kind \in {"no panel", "This is the baseline packet for comparison.",
                                    "Differences"}
       /\ DiffPanel(app').kind = "This is the baseline packet for comparison."
            => app.baseline_packet_index = Some(app'.packet_index)
       /\ DiffPanel(app').kind = "Differences" =>
            DiffPanel(app').lines
              = FormatJsonDiff(CompareJson(app.baseline_packet_json.v,
                                           Packets(app)[app'.packet_index + 1].packet_json.v),
                               <<>>, 0)]_vars

(* the first packet is the baseline, and two packets further on the panel  *)
(* shows the differences from it                                           *)
C33_Witness ==
  /\ app.mode = "PacketView"
  /\ app.compare_mode
  /\ app.baseline_packet_index = Some(0)
  /\ app.baseline_packet_json = Some(PacketDocument(DbPacket(1, 1, 1, "clientbound", Some(<<99>>))))
  /\ app.packet_index = 2
  /\ DiffPanel(app).kind = "Differences"
  /\ Len(DiffPanel(app).lines) > 1

(* C37: whenever the inspector has a session log loaded, the log has       *)
(* packets and packet_index is the index of one of them, after any         *)
(* sequence of keys, filter applications and session loads.                *)
C37_PacketIndexValid ==
  (app # NoResult /\ app.current_log.some) =>
    /\ Packets(app) # <<>>
    /\ app.packet_index \in 0..(Len(Packets(app)) - 1)
    /\ CurrentPacket(app).some

(* a filter was applied at the last of three packets, two packets matched  *)
(* and the index moved to the closest one; then a later filter matched     *)
(* nothing and left the log                                                *)
C37_Witness ==
  /\ app.mode = "PacketView"
  /\ app.current_log.some
  /\ Len(Packets(app)) = 2
  /\ app.packet_index = 1
  /\ app.error_message = Some("Failed to load filtered packets")

(* C38: compare_mode is true exactly when baseline_packet_index and        *)
(* baseline_packet_json are both set, neither is set without the other,    *)
(* and then the index is one of the loaded log and the JSON is that of     *)
(* the packet at that index.                                               *)
C38_BaselineConsistent ==
  app # NoResult =>
    /\ app.compare_mode <=> (app.baseline_packet_index.some /\ app.baseline_packet_json.some)
    /\ app.baseline_packet_index.some <=> app.baseline_packet_json.some
    /\ app.compare_mode =>
         /\ app.current_log.some
         /\ app.baseline_packet_index.v \in 0..(Len(Packets(app)) - 1)
         /\ Packets(app)[app.baseline_packet_index.v + 1].packet_json
              = app.baseline_packet_json

(* the second of two packets that matched a filter is the baseline, and    *)
(* the inspector has moved to the first                                    *)
C38_Witness ==
  /\ app.compare_mode
  /\ app.current_filter # None
  /\ Len(Packets(app)) = 2
  /\ app.baseline_packet_index = Some(1)
  /\ app.baseline_packet_json = Packets(app)[2].packet_json
  /\ app.packet_index = 0

(* C39: in the packet view the loaded log consists of the packets that     *)
(* loading the selected session with current_filter gives.                 *)
C39_LogIsOfCurrentFilter ==
  (app # NoResult /\ app.mode = "PacketView" /\ app.current_log.some) =>
    LoadOk(app.current_log.v)
      \in SessionLogLoad(db_packets, app.sessions[app.selected_session + 1],
                         app.current_filter)

(* the parts of a filter text: what is between the commas, trimmed, when   *)
(* it is not empty (filter_strings, line 284)                              *)
NonEmptyParts(input) == SelectSeq(TrimmedParts(input), LAMBDA part : part # <<>>)
KeptParts(input) == SelectSeq(NonEmptyParts(input), LAMBDA part : ValidToken(TokenOf(part)))
DroppedParts(input) ==
  SelectSeq(NonEmptyParts(input), LAMBDA part : ~ValidToken(TokenOf(part)))

(* the log SessionLog::load makes of every packet of a session *)
HoldsAllPacketsOf(log, table, session_id) ==
  /\ Len(log.packets) = Cardinality({row \in table : row.session_id = session_id})
  /\ {log.packets[i] : i \in 1..Len(log.packets)}
       = {EntryOfRow(row) : row \in {row \in table : row.session_id = session_id}}
  /\ \A i \in 1..(Len(log.packets) - 1) :
       log.packets[i].packet_number.v <= log.packets[i + 1].packet_number.v

(* C40: of the parts of the input, parse_filter drops those whose          *)
(* direction token is not c, s, a or empty in either case and makes        *)
(* filters of the others in the order of the input; when every part is     *)
(* dropped it returns None, and a load with None gives every packet of the *)
(* session.                                                                *)
C40_InvalidPartsDropped ==
  Applied =>
    /\ KeptParts(filter_input) # <<>>
         => filter = Some([filters |-> FiltersOfParts(KeptParts(filter_input))])
    /\ KeptParts(filter_input) = <<>> =>
         /\ filter = None
         /\ \A session_id \in SessionIds :
              /\ \E result \in SessionLogLoad(StoredPackets, session_id, filter) : result.ok
              /\ \A result \in SessionLogLoad(StoredPackets, session_id, filter) :
                   result.ok => HoldsAllPacketsOf(result.log, StoredPackets, session_id)

(* an input of two parts, both with a direction token that is not one,     *)
(* was applied and gave no filter set                                      *)
C40_Witness ==
  /\ Applied
  /\ Len(DroppedParts(filter_input)) = 2
  /\ KeptParts(filter_input) = <<>>
  /\ filter = None
====
